---- MODULE Spec2Model ----
(***************************************************************************)
(* Roof-Estimates: a state-machine model of the three page scripts of the  *)
(* repository:                                                             *)
(*   "report" : src/unnamed/part_000 lines 1-1276 (reports, history,       *)
(*              templates, profile, PDF export)                            *)
(*   "quote"  : src/unnamed/part_000 lines 1278-1559 (quote builder)       *)
(*   "basic"  : src/index.tsx (address -> report, nothing stored)          *)
(* Each behaviour runs one of the scripts against the browser's local      *)
(* storage.  Strings that the code trims or parses are sequences of        *)
(* one-character strings; a JavaScript number is a record (see JsNum).     *)
(***************************************************************************)
EXTENDS Integers, Sequences, FiniteSets, TLC

(***************************************************************************)
(* Bounds of the model                                                     *)
(***************************************************************************)
\* getRoofReport calls started in one behaviour
MaxCalls == 2
\* Save Changes timers waiting at one time
MaxTimers == 1
\* profile saves waiting on a timer or a file read at one time
MaxPending == 2
\* line-item rows in the quote form
MaxRows == 2
\* quotes submitted in one behaviour
MaxSubmits == 1
\* lines splitTextToSize cuts the notes of a custom section into
MaxLines == 2

\* templates created in one behaviour
MaxCreated == 2

(***************************************************************************)
(* Strings                                                                 *)
(***************************************************************************)
\* String.prototype.trim: strips the white space at both ends, keeps the inside
RECURSIVE TrimStart(_)
TrimStart(s) ==
    IF s = <<>> THEN <<>>
    ELSE IF Head(s) = " " THEN TrimStart(Tail(s)) ELSE s

RECURSIVE TrimEnd(_)
TrimEnd(s) ==
    IF s = <<>> THEN <<>>
    ELSE IF s[Len(s)] = " " THEN TrimEnd(SubSeq(s, 1, Len(s) - 1)) ELSE s

\* a faulty trim: trimStart only, the white space at the end stays
TrimStartOnly(s) == TrimStart(s)

\* a faulty trim: the value is taken as typed
KeepSpaces(s) == s

Trim(s) == TrimEnd(TrimStart(s))

\* what the user can have typed in the address field
AddressInputs == { <<>>, <<" ">>, <<" ", "a", " ", "b", " ">> }

\* white space at neither end
IsTrimmed(s) == s = <<>> \/ (s[1] # " " /\ s[Len(s)] # " ")

\* what the user can have typed in the sign-up form's full-name field
NameInputs == { <<>>, <<" ", "J", " ">>, <<"J", " ", "D">> }

\* the one name typed where the name does not matter
UsualName == { <<"J", " ", "D">> }

(***************************************************************************)
(* JavaScript numbers: NaN, the infinities, or the fraction n/d in lowest  *)
(* terms with d > 0 (rounding of binary floating point is not modelled).   *)
(***************************************************************************)
NaN == [k |-> "nan", n |-> 0, d |-> 1]
Infinity == [k |-> "inf", n |-> 0, d |-> 1]
NegInfinity == [k |-> "ninf", n |-> 0, d |-> 1]

Abs(x) == IF x < 0 THEN -x ELSE x

RECURSIVE GCD(_, _)
GCD(a, b) == IF b = 0 THEN a ELSE GCD(b, a % b)

\* the number n/d, d # 0
Fin(n, d) ==
    LET g == GCD(Abs(n), Abs(d))
        sgn == IF d < 0 THEN -1 ELSE 1
    IN  [k |-> "fin", n |-> sgn * (n \div g), d |-> sgn * (d \div g)]

Num(n) == Fin(n, 1)

\* -1, 0 or 1 for a number that is not NaN
Sign(x) ==
    CASE x.k = "inf" -> 1
      [] x.k = "ninf" -> -1
      [] OTHER -> IF x.n > 0 THEN 1 ELSE IF x.n < 0 THEN -1 ELSE 0

SignedInfinity(sgn) == IF sgn > 0 THEN Infinity ELSE NegInfinity

\* x * y
JsMul(x, y) ==
    IF x.k = "nan" \/ y.k = "nan" THEN NaN
    ELSE IF x.k = "fin" /\ y.k = "fin" THEN Fin(x.n * y.n, x.d * y.d)
    ELSE IF Sign(x) = 0 \/ Sign(y) = 0 THEN NaN
    ELSE SignedInfinity(Sign(x) * Sign(y))

\* x / y
JsDiv(x, y) ==
    IF x.k = "nan" \/ y.k = "nan" THEN NaN
    ELSE IF x.k = "fin" /\ y.k = "fin"
         THEN IF y.n # 0 THEN Fin(x.n * y.d, x.d * y.n)
              ELSE IF x.n = 0 THEN NaN ELSE SignedInfinity(Sign(x))
    ELSE IF x.k = "fin" THEN Num(0)
    ELSE IF y.k = "fin"
         THEN SignedInfinity(Sign(x) * (IF Sign(y) < 0 THEN -1 ELSE 1))
    ELSE NaN

\* x + y
JsAdd(x, y) ==
    IF x.k = "nan" \/ y.k = "nan" THEN NaN
    ELSE IF x.k = "fin" /\ y.k = "fin" THEN Fin(x.n * y.d + y.n * x.d, x.d * y.d)
    ELSE IF x.k = "fin" THEN y
    ELSE IF y.k = "fin" THEN x
    ELSE IF x.k = y.k THEN x ELSE NaN

\* x || dflt: NaN and 0 are falsy
OrDefault(x, dflt) ==
    IF x.k = "nan" \/ (x.k = "fin" /\ x.n = 0) THEN dflt ELSE x

\* x.toFixed(2): the hundredths nearest to x, the larger one on a tie
ToFixed2(x) ==
    IF x.k = "fin"
    THEN [k |-> "fixed", hundredths |-> (2 * 100 * x.n + x.d) \div (2 * x.d)]
    ELSE [k |-> x.k, hundredths |-> 0]

(***************************************************************************)
(* Values of the report script                                             *)
(***************************************************************************)
\* the Measurements type: seven strings
MeasurementKeys ==
    {"totalArea", "pitch", "ridges", "valleys", "eaves", "rakes", "wasteFactor"}

\* a payload the measurements request can answer with (responseSchema)
AiMeasurements ==
    [totalArea |-> "2,450 sq ft", pitch |-> "6/12", ridges |-> "120 ft",
     valleys |-> "65 ft", eaves |-> "180 ft", rakes |-> "90 ft",
     wasteFactor |-> "15%"]

\* what the user can have typed over the seven inputs in edit mode
EditedMeasurements ==
    [totalArea |-> "2,500 sq ft", pitch |-> "8/12", ridges |-> "",
     valleys |-> "65 ft", eaves |-> "200 ft", rakes |-> "90 ft",
     wasteFactor |-> "10%"]

\* measurementResponse.text: text that is the JSON of an object, or text
\* that JSON.parse rejects (empty, truncated, undefined)
MeasurementTexts ==
    { [parsable |-> TRUE, object |-> AiMeasurements],
      [parsable |-> FALSE, object |-> AiMeasurements] }

\* imageResponse.generatedImages: the list of base64 image bytes returned
GeneratedImages == { <<>>, <<"/9j/4AAQ">> }

NoText == [parsable |-> FALSE, object |-> AiMeasurements]

\* the custom sections a saved template can hold
\* a template saved on an earlier visit, with one custom section
EarlierTemplate ==
    [id |-> 1, name |-> "Insurance",
     customSections |-> <<[id |-> "new_1", title |-> "Notes"]>>]

\* the Profile form: company names, the one address, the logo files
CompanyNames == {"Acme", "Apex"}
CompanyAddress == "1 Main St"
LogoFiles == {"logoA"}
\* a selected file whose read ends in reader.onerror
UnreadableFiles == {"gone"}
\* what the user can have typed in a custom section's textarea
NoteTexts == {"checked"}

VARIABLES
    app,            \* which page script runs: "report", "quote" or "basic"
    view,           \* what mainContent.innerHTML currently shows
    modalHidden,    \* modalOverlay has the class "hidden"
    nav,            \* the nav bar: signUpNavBtn's label and listener, hidden links
    localStorage,   \* key -> <<>> (no item) or <<value>> (the stored JSON)
    clock,          \* the last value Date.now() returned
    calls,          \* the getRoofReport calls started so far, by call number
    shown,          \* <<>> or <<r>>: the report the report view was rendered from
    editing,        \* the report view is in edit mode
    btnDisabled,    \* the submit button of the form in view is disabled
    timers,         \* the setTimeout callbacks not yet run, in the order they were set
    readers,        \* the FileReader loads not yet finished (profile logo)
    atomicProfile,  \* history variable: the profile item had every save finished when triggered
    rows,           \* the .line-item rows of the quote form: inputs and displayed total
    grandTotal,     \* the text of #grand-total, without its "Total: $"
    svg,            \* createRoofVisualizationSVG: its argument and what it computed
    pdf,            \* handleDownloadPdf: where it is, the cursor and the pages of the document
    signUpName,     \* <<>> or <<s>>: what #full-name held at the last sign-up submit
    cards,          \* the ids of the template cards the templates view was rendered with
    editorId,       \* <<>> or <<id>>: the templateId the template editor's submit listener holds
    confirming,     \* <<>> or <<d>>: the confirm() dialog of a Delete click and its answer
    alerted         \* <<>> or <<m>>: the alert() with which the last listener to run refused its form

appVars == <<app, view, modalHidden, nav, localStorage, clock, calls, shown,
             editing, btnDisabled, timers, readers, atomicProfile>>

quoteVars == <<rows, grandTotal>>

docVars == <<svg, pdf>>

formVars == <<signUpName>>

templateVars == <<cards, editorId, confirming>>

vars == <<appVars, quoteVars, docVars, formVars, templateVars, alerted>>

(***************************************************************************)
(* Local storage                                                           *)
(***************************************************************************)
REPORT_HISTORY_KEY == "roofReportHistory"
PROFILE_DATA_KEY == "contractorProfile"
TEMPLATE_DATA_KEY == "reportTemplates"
USER_NAME_KEY == "contractorUserName"
QUOTES_KEY == "contractorQuotes"

StorageKeys ==
    {REPORT_HISTORY_KEY, PROFILE_DATA_KEY, TEMPLATE_DATA_KEY, USER_NAME_KEY, QUOTES_KEY}

\* localStorage.setItem(key, value) applied to the storage ls
SetItem(ls, key, value) == [ls EXCEPT ![key] = <<value>>]

\* JSON.parse(item) of a stored array, [] when there is no item
ParseArrayOr(item) == IF item = <<>> THEN <<>> ELSE item[1]

getReportHistory(ls) == ParseArrayOr(ls[REPORT_HISTORY_KEY])

getTemplates(ls) == ParseArrayOr(ls[TEMPLATE_DATA_KEY])

\* templates.find(t => t.id === id): <<>> or <<the first template with that id>>
FindTemplate(templates, id) ==
    LET hits == {i \in 1..Len(templates) : templates[i].id = id}
    IN  IF hits = {} THEN <<>>
        ELSE <<templates[CHOOSE i \in hits : \A j \in hits : i <= j]>>

\* customData: {}
EmptyData == [sid \in {} |-> ""]

\* a faulty start: the template's sections are not looked up
NoCustomData(ls, templateId) == EmptyData

\* the customData a new report starts with: a key per section of its template
InitialCustomData(ls, templateId) ==
    IF templateId = 0 THEN EmptyData
    ELSE LET found == FindTemplate(getTemplates(ls), templateId)
         IN  IF found = <<>> THEN EmptyData
             ELSE [sid \in {found[1].customSections[i].id :
                               i \in 1..Len(found[1].customSections)} |-> ""]

\* new Date().toISOString() at time now
ToISOString(now) == <<"iso", now>>

\* the report saveReportToHistory builds from its argument at time now
NewReport(ls, report, now) ==
    [id |-> now, address |-> report.address, imageUrl |-> report.imageUrl,
     measurements |-> report.measurements, timestamp |-> ToISOString(now),
     templateId |-> report.templateId,
     customData |-> InitialCustomData(ls, report.templateId)]

\* a faulty unshift: the item goes to the end, as push does
PushInsteadOfUnshift(list, item) == list \o <<item>>

\* history.unshift(newReport)
Unshift(list, item) == <<item>> \o list

\* local storage after saveReportToHistory(report) at time now
saveReportToHistory(ls, report, now) ==
    SetItem(ls, REPORT_HISTORY_KEY,
            Unshift(getReportHistory(ls), NewReport(ls, report, now)))

\* history.findIndex(r => r.id === id): 0 when there is none (JavaScript's -1)
FindIndex(history, id) ==
    LET hits == {i \in 1..Len(history) : history[i].id = id}
    IN  IF hits = {} THEN 0 ELSE CHOOSE i \in hits : \A j \in hits : i <= j

\* a faulty update: a report that is not stored is added to the history
UpsertReport(ls, updatedReport) ==
    LET history == getReportHistory(ls)
        reportIndex == FindIndex(history, updatedReport.id)
    IN  SetItem(ls, REPORT_HISTORY_KEY,
                IF reportIndex # 0
                THEN [history EXCEPT ![reportIndex] = updatedReport]
                ELSE Unshift(history, updatedReport))

\* local storage after updateReportInHistory(updatedReport)
updateReportInHistory(ls, updatedReport) ==
    LET history == getReportHistory(ls)
        reportIndex == FindIndex(history, updatedReport.id)
    IN  IF reportIndex # 0
        THEN SetItem(ls, REPORT_HISTORY_KEY,
                     [history EXCEPT ![reportIndex] = updatedReport])
        ELSE ls

\* a faulty save: the id of the template is ignored and a new template is made
SaveAsNewTemplate(ls, template, now) ==
    SetItem(ls, TEMPLATE_DATA_KEY,
            Unshift(getTemplates(ls), [template EXCEPT !.id = now]))

\* local storage after saveTemplate(template) at time now; a template without
\* an id (or with a falsy one) has id 0 here
saveTemplate(ls, template, now) ==
    LET templates == getTemplates(ls)
    IN  IF template.id # 0
        THEN LET index == FindIndex(templates, template.id)
             IN  SetItem(ls, TEMPLATE_DATA_KEY,
                         IF index # 0
                         THEN [templates EXCEPT ![index] = template]
                         ELSE Unshift(templates, template))
        ELSE SetItem(ls, TEMPLATE_DATA_KEY,
                     Unshift(templates, [template EXCEPT !.id = now]))

\* a faulty delete: the whole list of templates is emptied
DeleteEveryTemplate(ls, templateId) == SetItem(ls, TEMPLATE_DATA_KEY, <<>>)

\* local storage after deleteTemplate(templateId)
deleteTemplate(ls, templateId) ==
    SetItem(ls, TEMPLATE_DATA_KEY,
            SelectSeq(getTemplates(ls), LAMBDA t : t.id # templateId))

\* getProfileData() || the empty profile
NoProfile == [companyName |-> "", companyAddress |-> "", logoDataUrl |-> <<>>]

getProfileData(ls) == ls[PROFILE_DATA_KEY]

CurrentProfile(item) == IF item = <<>> THEN NoProfile ELSE item[1]

saveProfileData(ls, profile) == SetItem(ls, PROFILE_DATA_KEY, profile)

(***************************************************************************)
(* Rendering: every render function overwrites mainContent.innerHTML, so   *)
(* the forms and buttons the pending callbacks hold are no longer in the   *)
(* page.                                                                   *)
(***************************************************************************)
Detached(pending) == [i \in DOMAIN pending |-> [pending[i] EXCEPT !.attached = FALSE]]

\* mainContent.innerHTML = ..., with tms and rds the callbacks still pending
RenderFrom(v, report, tms, rds) ==
    /\ view' = v
    /\ shown' = report
    /\ editing' = FALSE
    /\ btnDisabled' = FALSE
    /\ timers' = Detached(tms)
    /\ readers' = Detached(rds)

\* a render function other than renderReportView
Render(v) == RenderFrom(v, <<>>, timers, readers)

renderReportView(report) == RenderFrom("report", <<report>>, timers, readers)

\* Date.now(): the clock has not moved, or has moved on
Now == {clock, clock + 1}

(***************************************************************************)
(* Start of the page scripts                                               *)
(***************************************************************************)
Apps == {"report", "quote", "basic"}

EmptyStorage == [k \in StorageKeys |-> <<>>]

\* nothing is being drawn or exported
NoSvg == [given |-> <<>>, computed |-> <<>>]
NoPdf == [pc |-> "idle", pages |-> 0, cursorY |-> 0, left |-> 0, check |-> <<>>]

InitApp ==
    /\ rows = <<>>
    /\ grandTotal = ToFixed2(Num(0))
    /\ svg = NoSvg
    /\ pdf = NoPdf
    /\ view = "landing"
    /\ modalHidden = TRUE
    /\ nav = [btnText |-> "Sign Up", btnListener |-> "openModal",
              profileHidden |-> TRUE, templatesHidden |-> TRUE,
              historyHidden |-> TRUE]
    /\ clock = 1
    /\ calls = <<>>
    /\ shown = <<>>
    /\ editing = FALSE
    /\ btnDisabled = FALSE
    /\ timers = <<>>
    /\ readers = <<>>
    /\ atomicProfile = <<>>
    /\ cards = <<>>
    /\ editorId = <<>>
    /\ confirming = <<>>
    /\ alerted = <<>>
    /\ signUpName = <<>>

(***************************************************************************)
(* The sign-up modal                                                       *)
(***************************************************************************)
\* signUpNavBtn or the landing page's hero button, while it opens the modal
openModal ==
    /\ \/ nav.btnListener = "openModal"
       \/ view = "landing"
    /\ modalHidden' = FALSE
    /\ alerted' = <<>>
    /\ UNCHANGED <<app, view, nav, localStorage, clock, calls, shown, editing,
                   btnDisabled, timers, readers, atomicProfile, templateVars, quoteVars, docVars, formVars>>

\* the close button, a click on the overlay, the Escape key
closeModal ==
    /\ modalHidden = FALSE
    /\ modalHidden' = TRUE
    /\ alerted' = <<>>
    /\ UNCHANGED <<app, view, nav, localStorage, clock, calls, shown, editing,
                   btnDisabled, timers, readers, atomicProfile, templateVars, quoteVars, docVars, formVars>>

\* a faulty sign-up listener: the nav button keeps the listener it has
SignUpKeepsListener(fullName) ==
    /\ app = "report"
    /\ modalHidden = FALSE
    /\ signUpName' = <<fullName>>
    /\ modalHidden' = TRUE
    /\ Render("address")
    /\ nav' = [btnText |-> "New Report", btnListener |-> nav.btnListener,
               profileHidden |-> FALSE, templatesHidden |-> FALSE,
               historyHidden |-> IF Len(getReportHistory(localStorage)) > 0
                                 THEN FALSE ELSE nav.historyHidden]
    /\ alerted' = <<>>
    /\ UNCHANGED <<app, localStorage, clock, calls, atomicProfile, templateVars, quoteVars, docVars>>

\* the report script's submit listener of the sign-up form, with fullName in
\* the #full-name field, which it does not read
handleSignUpFormSubmit(fullName) ==
    /\ app = "report"
    /\ modalHidden = FALSE
    /\ signUpName' = <<fullName>>
    /\ modalHidden' = TRUE
    /\ Render("address")
    /\ nav' = [btnText |-> "New Report", btnListener |-> "renderAddressInput",
               profileHidden |-> FALSE, templatesHidden |-> FALSE,
               historyHidden |-> IF Len(getReportHistory(localStorage)) > 0
                                 THEN FALSE ELSE nav.historyHidden]
    /\ alerted' = <<>>
    /\ UNCHANGED <<app, localStorage, clock, calls, atomicProfile, templateVars, quoteVars, docVars>>

\* a faulty sign-up listener that stores the name as typed
StoreUntrimmed(ls, fullName) == [ls EXCEPT ![USER_NAME_KEY] = <<fullName>>]

\* what a sign-up listener that stores the name leaves in local storage
StoreUserName(ls, fullName) == [ls EXCEPT ![USER_NAME_KEY] = <<Trim(fullName)>>]

\* index.tsx's submit listener of the sign-up form
SignUpSubmitBasic(fullName) ==
    /\ app = "basic"
    /\ modalHidden = FALSE
    /\ signUpName' = <<fullName>>
    /\ localStorage' = StoreUserName(localStorage, fullName)
    /\ modalHidden' = TRUE
    /\ Render("address")
    /\ alerted' = <<>>
    /\ UNCHANGED <<app, nav, clock, calls, atomicProfile, templateVars, quoteVars, docVars>>

(***************************************************************************)
(* Navigation of the report script                                         *)
(***************************************************************************)
\* signUpNavBtn once it is the New Report button
ClickNewReport ==
    /\ app = "report"
    /\ nav.btnListener = "renderAddressInput"
    /\ Render("address")
    /\ alerted' = <<>>
    /\ UNCHANGED <<app, modalHidden, nav, localStorage, clock, calls, atomicProfile, templateVars, quoteVars, docVars, formVars>>

ClickLogo ==
    /\ app = "report"
    /\ view # "landing"
    /\ Render("landing")
    /\ alerted' = <<>>
    /\ UNCHANGED <<app, modalHidden, nav, localStorage, clock, calls, atomicProfile, templateVars, quoteVars, docVars, formVars>>

ClickHistoryNav ==
    /\ app = "report"
    /\ ~nav.historyHidden
    /\ Render("history")
    /\ alerted' = <<>>
    /\ UNCHANGED <<app, modalHidden, nav, localStorage, clock, calls, atomicProfile, templateVars, quoteVars, docVars, formVars>>

\* renderTemplatesView() with the templates of the storage ls: a card per
\* template, or the empty view with its Create button
renderTemplatesView(ls) ==
    /\ Render("templates")
    /\ cards' = [i \in 1..Len(getTemplates(ls)) |-> getTemplates(ls)[i].id]
    /\ editorId' = <<>>

ClickTemplatesNav ==
    /\ app = "report"
    /\ ~nav.templatesHidden
    /\ renderTemplatesView(localStorage)
    /\ alerted' = <<>>
    /\ UNCHANGED <<app, modalHidden, nav, localStorage, clock, calls, atomicProfile,
                   confirming, quoteVars, docVars, formVars>>

ClickProfileNav ==
    /\ app = "report"
    /\ ~nav.profileHidden
    /\ Render("profile")
    /\ alerted' = <<>>
    /\ UNCHANGED <<app, modalHidden, nav, localStorage, clock, calls, atomicProfile, templateVars, quoteVars, docVars, formVars>>

\* a View Report button of the history view: history.find by the card's id
ViewReport(i) ==
    /\ view = "history"
    /\ LET history == getReportHistory(localStorage)
       IN  /\ i \in 1..Len(history)
           /\ renderReportView(history[FindIndex(history, history[i].id)])
    /\ alerted' = <<>>
    /\ UNCHANGED <<app, modalHidden, nav, localStorage, clock, calls, atomicProfile, templateVars, quoteVars, docVars, formVars>>

\* the Start New Report button of the report view
StartNewReport ==
    /\ view = "report"
    /\ ~editing
    /\ Render("address")
    /\ alerted' = <<>>
    /\ UNCHANGED <<app, modalHidden, nav, localStorage, clock, calls, atomicProfile, templateVars, quoteVars, docVars, formVars>>

(***************************************************************************)
(* Report generation: handleAddressSubmit and getRoofReport                *)
(***************************************************************************)
\* the two requests getRoofReport starts before it awaits anything
StartRequests ==
    [measN |-> 1, imgN |-> 1, measSt |-> "pending", imgSt |-> "pending"]

\* a faulty Promise.all that settles as soon as either promise has, as
\* Promise.race does
PromiseRace(measSt, imgSt) ==
    IF measSt = "rejected" \/ imgSt = "rejected" THEN "rejected"
    ELSE IF measSt = "fulfilled" \/ imgSt = "fulfilled" THEN "fulfilled"
    ELSE "pending"

\* the state of Promise.all([measurementsPromise, imagePromise])
PromiseAll(measSt, imgSt) ==
    IF measSt = "rejected" \/ imgSt = "rejected" THEN "rejected"
    ELSE IF measSt = "fulfilled" /\ imgSt = "fulfilled" THEN "fulfilled"
    ELSE "pending"

\* `data:image/jpeg;base64,${base64ImageBytes}`
ImageUrl(bytes) == <<"data:image/jpeg;base64,", bytes>>

\* a faulty getRoofReport that reads generatedImages[0]?.image and so goes on
\* without an image
IgnoreMissingImage(text, images) ==
    IF ~text.parsable
    THEN [threw |-> TRUE, imageUrl |-> <<>>, measurements |-> text.object]
    ELSE [threw |-> FALSE,
          imageUrl |-> IF images = <<>> THEN <<>> ELSE ImageUrl(images[1]),
          measurements |-> text.object]

\* what getRoofReport does with the two responses: JSON.parse(text) throws on
\* text that is not JSON, generatedImages[0].image throws on an empty list
getRoofReportResult(text, images) ==
    IF ~text.parsable \/ images = <<>>
    THEN [threw |-> TRUE, imageUrl |-> <<>>, measurements |-> text.object]
    ELSE [threw |-> FALSE, imageUrl |-> ImageUrl(images[1]),
          measurements |-> text.object]

\* templateSelect.value ? Number(value) : undefined, undefined written 0:
\* the options are the templates stored when the form was rendered
TemplateChoices(ls) ==
    {0} \cup {getTemplates(ls)[i].id : i \in 1..Len(getTemplates(ls))}

\* the submit listener of the address form
handleAddressSubmit(input, templateId) ==
    /\ app \in {"report", "basic"}
    /\ view = "address"
    /\ LET address == Trim(input)
       IN  IF address = <<>>
           THEN /\ alerted' = <<"Please enter a valid address.">>
                /\ UNCHANGED <<appVars, templateVars, quoteVars, docVars, formVars>>
           ELSE /\ Len(calls) < MaxCalls
                /\ Render("loading")
                /\ calls' = Append(calls,
                       [address |-> address,
                        templateId |-> IF app = "report" THEN templateId ELSE 0,
                        status |-> "awaiting",
                        measN |-> StartRequests.measN, imgN |-> StartRequests.imgN,
                        measSt |-> StartRequests.measSt, imgSt |-> StartRequests.imgSt,
                        text |-> NoText, images |-> <<>>])
                /\ alerted' = <<>>
                /\ UNCHANGED <<app, modalHidden, nav, localStorage, clock,
                               atomicProfile, templateVars, quoteVars, docVars, formVars>>

\* a call that has returned or thrown: its arguments are no longer used, nor
\* are the responses of a call that threw
Finished(call, status) ==
    IF status = "returned"
    THEN [call EXCEPT !.status = status, !.address = <<>>, !.templateId = 0]
    ELSE [call EXCEPT !.status = status, !.address = <<>>, !.templateId = 0,
                      !.text = NoText, !.images = <<>>]

\* the rest of handleAddressSubmit, run when the awaited promise of call c,
\* now in state call, is settled
ResumeAddressSubmit(c, call) ==
    LET res == getRoofReportResult(call.text, call.images)
    IN  IF PromiseAll(call.measSt, call.imgSt) = "fulfilled" /\ ~res.threw
        THEN /\ calls' = [calls EXCEPT ![c] = Finished(call, "returned")]
             /\ IF app = "report"
                THEN \E now \in Now :
                        LET report == [address |-> call.address,
                                       imageUrl |-> res.imageUrl,
                                       measurements |-> res.measurements,
                                       templateId |-> call.templateId]
                        IN  /\ clock' = now
                            /\ localStorage' =
                                   saveReportToHistory(localStorage, report, now)
                            /\ nav' = [nav EXCEPT !.historyHidden = FALSE]
                            /\ renderReportView(NewReport(localStorage, report, now))
                ELSE /\ renderReportView(
                            [id |-> 0, address |-> call.address,
                             imageUrl |-> res.imageUrl,
                             measurements |-> res.measurements,
                             timestamp |-> ToISOString(0), templateId |-> 0,
                             customData |-> EmptyData])
                     /\ UNCHANGED <<localStorage, nav, clock>>
             /\ alerted' = <<>>
             /\ UNCHANGED <<app, modalHidden, atomicProfile, templateVars, quoteVars, docVars, formVars>>
        ELSE /\ calls' = [calls EXCEPT ![c] = Finished(call, "threw")]
             /\ Render("address")
             /\ alerted' = <<>>
             /\ UNCHANGED <<app, modalHidden, nav, localStorage, clock, atomicProfile, templateVars, quoteVars, docVars, formVars>>

\* a request of call c has been answered and the call is now in state call
Settled(c, call) ==
    IF calls[c].status = "awaiting" /\ PromiseAll(call.measSt, call.imgSt) # "pending"
    THEN ResumeAddressSubmit(c, call)
    ELSE /\ calls' = [calls EXCEPT ![c] = call]
         /\ alerted' = <<>>
         /\ UNCHANGED <<app, view, modalHidden, nav, localStorage, clock, shown,
                        editing, btnDisabled, timers, readers, atomicProfile, templateVars, quoteVars, docVars, formVars>>

\* generateContent answers with text
MeasurementsResponse(c, text) ==
    /\ c \in DOMAIN calls
    /\ calls[c].measSt = "pending"
    /\ Settled(c, IF calls[c].status = "awaiting"
                  THEN [calls[c] EXCEPT !.measSt = "fulfilled", !.text = text]
                  ELSE [calls[c] EXCEPT !.measSt = "fulfilled"])

\* generateContent rejects
MeasurementsRejected(c) ==
    /\ c \in DOMAIN calls
    /\ calls[c].measSt = "pending"
    /\ Settled(c, [calls[c] EXCEPT !.measSt = "rejected"])

\* generateImages answers with generatedImages
ImageResponse(c, images) ==
    /\ c \in DOMAIN calls
    /\ calls[c].imgSt = "pending"
    /\ Settled(c, IF calls[c].status = "awaiting"
                  THEN [calls[c] EXCEPT !.imgSt = "fulfilled", !.images = images]
                  ELSE [calls[c] EXCEPT !.imgSt = "fulfilled"])

\* generateImages rejects
ImageRejected(c) ==
    /\ c \in DOMAIN calls
    /\ calls[c].imgSt = "pending"
    /\ Settled(c, [calls[c] EXCEPT !.imgSt = "rejected"])

(***************************************************************************)
(* Pending callbacks: setTimeout and FileReader                            *)
(***************************************************************************)
Remove(seq, i) == SubSeq(seq, 1, i - 1) \o SubSeq(seq, i + 1, Len(seq))

\* the 300 ms timer of handleSaveChanges
ReportUpdateCallback(report) ==
    [kind |-> "reportUpdate", report |-> <<report>>, profile |-> <<>>,
     attached |-> TRUE]

\* the 300 ms timer of handleProfileSave
ProfileSaveCallback(profile) ==
    [kind |-> "profileSave", report |-> <<>>, profile |-> <<profile>>,
     attached |-> TRUE]

\* the 1500 ms timer of onSaveSuccess, for a button that is or is not in the page
ReenableCallback(attached) ==
    [kind |-> "reenable", report |-> <<>>, profile |-> <<>>, attached |-> attached]

\* timers run in the order of their deadlines: a 300 ms timer before every timer
\* set after it, a 1500 ms timer after every timer set before it
CanFire(i) ==
    /\ i \in DOMAIN timers
    /\ IF timers[i].kind = "reenable"
       THEN i = 1
       ELSE \A j \in 1..(i - 1) : timers[j].kind = "reenable"

(***************************************************************************)
(* Editing a report                                                        *)
(***************************************************************************)
\* the Edit Details button
handleToggleEditMode ==
    /\ app = "report"
    /\ view = "report"
    /\ ~editing
    /\ editing' = TRUE
    /\ alerted' = <<>>
    /\ UNCHANGED <<app, view, modalHidden, nav, localStorage, clock, calls, shown,
                   btnDisabled, timers, readers, atomicProfile, templateVars, quoteVars, docVars, formVars>>

\* the Cancel button of edit mode
CancelEdit ==
    /\ view = "report"
    /\ editing
    /\ renderReportView(shown[1])
    /\ alerted' = <<>>
    /\ UNCHANGED <<app, modalHidden, nav, localStorage, clock, calls, atomicProfile, templateVars, quoteVars, docVars, formVars>>

\* the ids of the custom sections the report view shows for a report
DisplayedSections(ls, report) ==
    IF report.templateId = 0 THEN {}
    ELSE LET found == FindTemplate(getTemplates(ls), report.templateId)
         IN  IF found = <<>> THEN {}
             ELSE {found[1].customSections[i].id :
                      i \in 1..Len(found[1].customSections)}

\* what the seven inputs of the report view in edit mode can hold
EditInputs ==
    IF shown = <<>> THEN {AiMeasurements}
    ELSE {EditedMeasurements}

\* what the textareas of the report view in edit mode can hold
TextareaContents ==
    IF shown = <<>> THEN {EmptyData}
    ELSE [DisplayedSections(localStorage, shown[1]) -> NoteTexts]

\* a faulty Save Changes: customData is rebuilt from the textareas alone
ReportFromFormOnly(originalReport, inputs, textareas) ==
    [originalReport EXCEPT !.measurements = inputs, !.customData = textareas]

\* the report handleSaveChanges builds from the inputs and the textareas
UpdatedReport(originalReport, inputs, textareas) ==
    [originalReport EXCEPT
        !.measurements = inputs,
        !.customData =
            [sid \in DOMAIN originalReport.customData \cup DOMAIN textareas |->
                IF sid \in DOMAIN textareas THEN textareas[sid]
                ELSE originalReport.customData[sid]]]

\* the Save Changes button
handleSaveChanges(inputs, textareas) ==
    /\ view = "report"
    /\ editing
    /\ ~btnDisabled
    /\ Len(timers) < MaxTimers
    /\ btnDisabled' = TRUE
    /\ timers' = Append(timers,
           ReportUpdateCallback(UpdatedReport(shown[1], inputs, textareas)))
    /\ alerted' = <<>>
    /\ UNCHANGED <<app, view, modalHidden, nav, localStorage, clock, calls, shown,
                   editing, readers, atomicProfile, templateVars, quoteVars, docVars, formVars>>

\* the timer of handleSaveChanges runs
ReportUpdateTimer(i) ==
    /\ CanFire(i)
    /\ timers[i].kind = "reportUpdate"
    /\ localStorage' = updateReportInHistory(localStorage, timers[i].report[1])
    /\ RenderFrom("report", timers[i].report, Remove(timers, i), readers)
    /\ alerted' = <<>>
    /\ UNCHANGED <<app, modalHidden, nav, clock, calls, atomicProfile, templateVars, quoteVars, docVars, formVars>>

(***************************************************************************)
(* The company profile                                                     *)
(***************************************************************************)
\* reader.readAsDataURL(file) result
DataUrl(file) == <<"data:", file>>

\* the profile the timer of a save without a logo file writes
ProfileWithoutFile(currentProfile, companyName, companyAddress) ==
    [currentProfile EXCEPT !.companyName = companyName,
                           !.companyAddress = companyAddress]

\* the submit listener of the profile form; file "" when no file is selected
handleProfileSave(companyName, file) ==
    /\ view = "profile"
    /\ ~btnDisabled
    /\ Len(timers) + Len(readers) < MaxPending
    /\ btnDisabled' = TRUE
    /\ IF file = ""
       THEN /\ timers' = Append(timers, ProfileSaveCallback(
                   ProfileWithoutFile(CurrentProfile(getProfileData(localStorage)),
                                      companyName, CompanyAddress)))
            /\ readers' = readers
            /\ atomicProfile' = <<ProfileWithoutFile(CurrentProfile(atomicProfile),
                                                     companyName, CompanyAddress)>>
       ELSE /\ readers' = Append(readers,
                   [companyName |-> companyName, companyAddress |-> CompanyAddress,
                    file |-> file, attached |-> TRUE])
            /\ timers' = timers
            /\ atomicProfile' =
                   IF file \in LogoFiles
                   THEN <<[companyName |-> companyName,
                           companyAddress |-> CompanyAddress,
                           logoDataUrl |-> DataUrl(file)]>>
                   ELSE atomicProfile
    /\ alerted' = <<>>
    /\ UNCHANGED <<app, view, modalHidden, nav, localStorage, clock, calls, shown,
                   editing, quoteVars, docVars, formVars, templateVars>>

\* the timer of handleProfileSave runs onSaveSuccess
ProfileSaveTimer(i) ==
    /\ CanFire(i)
    /\ timers[i].kind = "profileSave"
    /\ localStorage' = saveProfileData(localStorage, timers[i].profile[1])
    /\ timers' = Append(Remove(timers, i), ReenableCallback(timers[i].attached))
    /\ alerted' = <<>>
    /\ UNCHANGED <<app, view, modalHidden, nav, clock, calls, shown, editing,
                   btnDisabled, readers, atomicProfile, templateVars, quoteVars, docVars, formVars>>

\* reader.onload runs onSaveSuccess
ReaderLoad(i) ==
    /\ i \in DOMAIN readers
    /\ readers[i].file \in LogoFiles
    /\ localStorage' = saveProfileData(localStorage,
           [companyName |-> readers[i].companyName,
            companyAddress |-> readers[i].companyAddress,
            logoDataUrl |-> DataUrl(readers[i].file)])
    /\ readers' = Remove(readers, i)
    /\ timers' = Append(timers, ReenableCallback(readers[i].attached))
    /\ alerted' = <<>>
    /\ UNCHANGED <<app, view, modalHidden, nav, clock, calls, shown, editing,
                   btnDisabled, atomicProfile, templateVars, quoteVars, docVars, formVars>>

\* reader.onerror
ReaderError(i) ==
    /\ i \in DOMAIN readers
    /\ readers[i].file \in UnreadableFiles
    /\ readers' = Remove(readers, i)
    /\ btnDisabled' = IF readers[i].attached THEN FALSE ELSE btnDisabled
    /\ alerted' = <<>>
    /\ UNCHANGED <<app, view, modalHidden, nav, localStorage, clock, calls, shown,
                   editing, timers, atomicProfile, templateVars, quoteVars, docVars, formVars>>

\* the 1500 ms timer of onSaveSuccess runs
ReenableTimer(i) ==
    /\ CanFire(i)
    /\ timers[i].kind = "reenable"
    /\ timers' = Remove(timers, i)
    /\ btnDisabled' = IF timers[i].attached THEN FALSE ELSE btnDisabled
    /\ alerted' = <<>>
    /\ UNCHANGED <<app, view, modalHidden, nav, localStorage, clock, calls, shown,
                   editing, readers, atomicProfile, templateVars, quoteVars, docVars, formVars>>

(***************************************************************************)
(* The quote script                                                        *)
(***************************************************************************)
\* what the quantity and rate inputs can hold: NaN is valueAsNumber of a
\* blank input
QuantityInputs == {NaN, Num(1)}
RateInputs == {NaN, Fin(1050, 100)}

ClientFields ==
    [clientName |-> "Pat", clientAddress |-> "9 Elm St",
     clientEmail |-> "pat@example.com", projectTitle |-> "Reroof"]

getQuotesFromStorage(ls) == ParseArrayOr(ls[QUOTES_KEY])

saveQuotesToStorage(ls, quotes) == SetItem(ls, QUOTES_KEY, quotes)

\* a faulty addLineItem whose rate input starts at 1 while the text says $0.00
LineItemWithRate == [quantity |-> Num(1), rate |-> Num(1), total |-> ToFixed2(Num(0))]

\* the row addLineItem appends: quantity "1", a blank rate, the text $0.00
NewLineItem == [quantity |-> Num(1), rate |-> NaN, total |-> ToFixed2(Num(0))]

\* the rows after updateTotals: each row's text is its quantity * rate
UpdatedRows(items) ==
    [i \in DOMAIN items |->
        [items[i] EXCEPT !.total =
            ToFixed2(JsMul(OrDefault(items[i].quantity, Num(0)),
                           OrDefault(items[i].rate, Num(0))))]]

\* grandTotal of updateTotals after the first n rows
RECURSIVE SumTotals(_, _)
SumTotals(items, n) ==
    IF n = 0 THEN Num(0)
    ELSE JsAdd(SumTotals(items, n - 1),
               JsMul(OrDefault(items[n].quantity, Num(0)),
                     OrDefault(items[n].rate, Num(0))))

\* updateTotals()
updateTotals(items) ==
    /\ rows' = UpdatedRows(items)
    /\ grandTotal' = ToFixed2(SumTotals(items, Len(items)))

\* the quote script's submit listener of the sign-up form
SignUpSubmitQuote(fullName) ==
    /\ app = "quote"
    /\ modalHidden = FALSE
    /\ signUpName' = <<fullName>>
    /\ localStorage' = StoreUserName(localStorage, fullName)
    /\ modalHidden' = TRUE
    /\ Render("dashboard")
    /\ rows' = <<>>
    /\ grandTotal' = ToFixed2(Num(0))
    /\ alerted' = <<>>
    /\ UNCHANGED <<app, nav, clock, calls, atomicProfile, templateVars, docVars>>

\* the Create New Quote button: renderQuoteCreator ends with addLineItem();
\* updateTotals()
renderQuoteCreator ==
    /\ view = "dashboard"
    /\ Render("quoteCreator")
    /\ updateTotals(<<NewLineItem>>)
    /\ alerted' = <<>>
    /\ UNCHANGED <<app, modalHidden, nav, localStorage, clock, calls, atomicProfile, templateVars, docVars, formVars>>

\* the + Add Item button
addLineItem ==
    /\ view = "quoteCreator"
    /\ Len(rows) < MaxRows
    /\ rows' = Append(rows, NewLineItem)
    /\ alerted' = <<>>
    /\ UNCHANGED <<appVars, templateVars, grandTotal, docVars, formVars>>

\* an input event of the quantity input of row i
InputQuantity(i, value) ==
    /\ view = "quoteCreator"
    /\ i \in DOMAIN rows
    /\ updateTotals([rows EXCEPT ![i].quantity = value])
    /\ alerted' = <<>>
    /\ UNCHANGED <<appVars, templateVars, docVars, formVars>>

\* an input event of the rate input of row i
InputRate(i, value) ==
    /\ view = "quoteCreator"
    /\ i \in DOMAIN rows
    /\ updateTotals([rows EXCEPT ![i].rate = value])
    /\ alerted' = <<>>
    /\ UNCHANGED <<appVars, templateVars, docVars, formVars>>

\* the remove button of row i
RemoveLineItem(i) ==
    /\ view = "quoteCreator"
    /\ i \in DOMAIN rows
    /\ updateTotals(Remove(rows, i))
    /\ alerted' = <<>>
    /\ UNCHANGED <<appVars, templateVars, docVars, formVars>>

\* the form's constraint validation: the inputs are required, min="0"
RowValid(item) ==
    /\ item.quantity.k = "fin" /\ item.quantity.n >= 0
    /\ item.rate.k = "fin" /\ item.rate.n >= 0

\* total of the submit listener after the first n rows
RECURSIVE QuoteTotal(_, _)
QuoteTotal(items, n) ==
    IF n = 0 THEN Num(0)
    ELSE JsAdd(QuoteTotal(items, n - 1), JsMul(items[n].quantity, items[n].rate))

\* the quote the submit listener builds at time now
NewQuote(items, now) ==
    [id |-> now, clientName |-> ClientFields.clientName,
     clientAddress |-> ClientFields.clientAddress,
     clientEmail |-> ClientFields.clientEmail,
     projectTitle |-> ClientFields.projectTitle,
     lineItems |-> [i \in DOMAIN items |->
                       [description |-> "Shingles", quantity |-> items[i].quantity,
                        rate |-> items[i].rate]],
     total |-> QuoteTotal(items, Len(items))]

\* a faulty push: the quote goes to the front, as unshift does
UnshiftInsteadOfPush(list, item) == <<item>> \o list

\* quotes.push(newQuote)
Push(list, item) == Append(list, item)

\* a faulty submit listener: a quote is stored whether or not there is a row
SubmitWithoutRowCheck ==
    /\ view = "quoteCreator"
    /\ \A i \in DOMAIN rows : RowValid(rows[i])
    /\ clock <= MaxSubmits
    /\ clock' = clock + 1
    /\ localStorage' = saveQuotesToStorage(localStorage,
           Push(getQuotesFromStorage(localStorage), NewQuote(rows, clock + 1)))
    /\ Render("dashboard")
    /\ rows' = <<>>
    /\ grandTotal' = ToFixed2(Num(0))
    /\ alerted' = <<>>
    /\ UNCHANGED <<app, modalHidden, nav, calls, atomicProfile, templateVars, docVars, formVars>>

\* the submit listener of the quote form; Date.now() has moved on since the
\* form was rendered
SubmitQuote ==
    /\ view = "quoteCreator"
    /\ \A i \in DOMAIN rows : RowValid(rows[i])
    /\ IF Len(rows) = 0
       THEN /\ alerted' = <<"Please add at least one line item to the quote.">>
            /\ UNCHANGED <<appVars, templateVars, quoteVars, docVars, formVars>>
       ELSE /\ clock <= MaxSubmits
            /\ clock' = clock + 1
            /\ localStorage' = saveQuotesToStorage(localStorage,
                   Push(getQuotesFromStorage(localStorage), NewQuote(rows, clock + 1)))
            /\ Render("dashboard")
            /\ rows' = <<>>
            /\ grandTotal' = ToFixed2(Num(0))
            /\ alerted' = <<>>
            /\ UNCHANGED <<app, modalHidden, nav, calls, atomicProfile, templateVars, docVars, formVars>>

\* the Back to Dashboard button
BackToDashboard ==
    /\ view = "quoteCreator"
    /\ Render("dashboard")
    /\ rows' = <<>>
    /\ grandTotal' = ToFixed2(Num(0))
    /\ alerted' = <<>>
    /\ UNCHANGED <<app, modalHidden, nav, localStorage, clock, calls, atomicProfile, templateVars, docVars, formVars>>

(***************************************************************************)
(* The specifications                                                      *)
(***************************************************************************)
(***************************************************************************)
(* The roof diagram: createRoofVisualizationSVG                            *)
(***************************************************************************)
Digits == {"0", "1", "2", "3", "4", "5", "6", "7", "8", "9"}

DigitValue(c) ==
    CASE c = "0" -> 0 [] c = "1" -> 1 [] c = "2" -> 2 [] c = "3" -> 3
      [] c = "4" -> 4 [] c = "5" -> 5 [] c = "6" -> 6 [] c = "7" -> 7
      [] c = "8" -> 8 [] c = "9" -> 9

\* how many digits s starts with
RECURSIVE LeadingDigits(_)
LeadingDigits(s) ==
    IF s = <<>> \/ Head(s) \notin Digits THEN 0 ELSE 1 + LeadingDigits(Tail(s))

\* the number a sequence of digits writes, 0 for none
RECURSIVE DigitsValue(_)
DigitsValue(s) ==
    IF s = <<>> THEN 0
    ELSE 10 * DigitsValue(SubSeq(s, 1, Len(s) - 1)) + DigitValue(s[Len(s)])

RECURSIVE Pow10(_)
Pow10(n) == IF n = 0 THEN 1 ELSE 10 * Pow10(n - 1)

\* s begins with the characters of prefix
StartsWith(s, prefix) ==
    Len(s) >= Len(prefix) /\ SubSeq(s, 1, Len(prefix)) = prefix

\* parseFloat(s) for s without a sign: Infinity, or the longest decimal
\* literal s starts with, or NaN when it starts with none (the texts used
\* here hold no exponent)
ParseUnsigned(s) ==
    IF StartsWith(s, <<"I", "n", "f", "i", "n", "i", "t", "y">>) THEN Infinity
    ELSE LET whole == LeadingDigits(s)
             rest == SubSeq(s, whole + 1, Len(s))
             frac == IF rest # <<>> /\ Head(rest) = "."
                     THEN LeadingDigits(Tail(rest)) ELSE 0
         IN  IF whole + frac = 0 THEN NaN
             ELSE Fin(DigitsValue(SubSeq(s, 1, whole)) * Pow10(frac)
                         + DigitsValue(SubSeq(rest, 2, frac + 1)),
                      Pow10(frac))

\* -x
Negate(x) ==
    CASE x.k = "nan" -> NaN
      [] x.k = "inf" -> NegInfinity
      [] x.k = "ninf" -> Infinity
      [] OTHER -> Fin(-x.n, x.d)

\* parseFloat(s): leading white space is skipped, a sign is read, what follows
\* the number is ignored
ParseFloat(s) ==
    LET t == TrimStart(s)
    IN  IF t = <<>> THEN NaN
        ELSE IF Head(t) = "-" THEN Negate(ParseUnsigned(Tail(t)))
        ELSE IF Head(t) = "+" THEN ParseUnsigned(Tail(t))
        ELSE ParseUnsigned(t)

\* s.split(sep) for a one-character sep
RECURSIVE Split(_, _)
Split(s, sep) ==
    LET hits == {i \in 1..Len(s) : s[i] = sep}
    IN  IF hits = {} THEN <<s>>
        ELSE LET i == CHOOSE h \in hits : \A g \in hits : h <= g
             IN  <<SubSeq(s, 1, i - 1)>> \o Split(SubSeq(s, i + 1, Len(s)), sep)

\* what measurements.ridges and measurements.eaves can hold: a payload of the
\* AI, or what the user typed over it in edit mode
LengthTexts ==
    { <<"1", "2", "0", " ", "f", "t">>, <<>>, <<"0">>, <<"N", "/", "A">>,
      <<"-", "5">>, <<"1", "2", ".", "5">>,
      <<"I", "n", "f", "i", "n", "i", "t", "y">> }

\* what measurements.pitch can hold
PitchTexts ==
    { <<"6", "/", "1", "2">>, <<>>, <<"8">>, <<"0", "/", "0">>,
      <<"4", "/", "x">>, <<"/", "1", "2">>,
      <<"I", "n", "f", "i", "n", "i", "t", "y", "/",
        "I", "n", "f", "i", "n", "i", "t", "y">> }

\* pitchParts[i], NaN standing for undefined, which is falsy too
PitchPart(parts, i) == IF i <= Len(parts) THEN ParseFloat(parts[i]) ELSE NaN

\* the numbers createRoofVisualizationSVG computes from the measurements
Geometry(measurements) ==
    LET ridgeLength == OrDefault(ParseFloat(measurements.ridges), Num(100))
        roofDepth == JsDiv(OrDefault(ParseFloat(measurements.eaves), Num(200)), Num(2))
        pitchParts == Split(IF measurements.pitch = <<>>
                            THEN <<"6", "/", "1", "2">> ELSE measurements.pitch, "/")
        rise == OrDefault(PitchPart(pitchParts, 1), Num(6))
        run == OrDefault(PitchPart(pitchParts, 2), Num(12))
        rectHeight == JsMul(JsDiv(roofDepth, ridgeLength), Num(200))
        triHeight == JsMul(JsDiv(rise, run), Num(100))
    IN  [ridgeLength |-> ridgeLength, roofDepth |-> roofDepth, rise |-> rise,
         run |-> run, rectHeight |-> rectHeight, triHeight |-> triHeight,
         triY |-> JsAdd(Num(60), rectHeight)]

\* renderReportView draws the diagram of a report with these measurements
createRoofVisualizationSVG(measurements) ==
    /\ app \in {"report", "basic"}
    /\ svg' = [given |-> <<measurements>>, computed |-> <<Geometry(measurements)>>]
    /\ alerted' = <<>>
    /\ UNCHANGED <<appVars, templateVars, quoteVars, pdf, formVars>>

(***************************************************************************)
(* PDF export: handleDownloadPdf                                           *)
(***************************************************************************)
\* const MARGIN = 40
MARGIN == 40
\* the a4 page of new jsPDF({ orientation: 'p', unit: 'px', format: 'a4' }),
\* in whole px: doc.internal.pageSize.getWidth() and getHeight()
PAGE_WIDTH == 446
PAGE_HEIGHT == 631
CONTENT_WIDTH == PAGE_WIDTH - MARGIN * 2

\* the height the diagram's canvas gets at CONTENT_WIDTH, by its aspect ratio
VizHeights == {183, 356, 366}
\* lastAutoTable.finalY: where the measurements table ends on its last page
TableEnds == {200, 500, 560}

\* a faulty checkPageBreak that breaks as soon as the item reaches the margin
BreakAtMargin(pages, currentY, itemHeight) ==
    IF currentY + itemHeight >= PAGE_HEIGHT - MARGIN
    THEN [pages |-> pages + 1, y |-> MARGIN]
    ELSE [pages |-> pages, y |-> currentY]

\* checkPageBreak(currentY, itemHeight) on a document of so many pages: the
\* pages after doc.addPage(), or not, and the value returned
checkPageBreak(pages, currentY, itemHeight) ==
    IF currentY + itemHeight > PAGE_HEIGHT - MARGIN
    THEN [pages |-> pages + 1, y |-> MARGIN]
    ELSE [pages |-> pages, y |-> currentY]

\* the export goes on at pc after cursorY = checkPageBreak(currentY, itemHeight)
\* on a document of so many pages, and a further advance of the cursor
AfterPageBreak(pc, pages, currentY, itemHeight, advance, left) ==
    LET r == checkPageBreak(pages, currentY, itemHeight)
    IN  pdf' = [pc |-> pc, pages |-> r.pages, cursorY |-> r.y + advance,
                left |-> left,
                check |-> <<[currentY |-> currentY, itemHeight |-> itemHeight,
                             returned |-> r.y, pagesBefore |-> pages,
                             pagesAfter |-> r.pages]>>]

\* the report has custom sections to print: templateId && customData, the
\* template is found and has sections
HasCustomSections(ls, report) ==
    /\ app = "report"
    /\ report.templateId # 0
    /\ FindTemplate(getTemplates(ls), report.templateId) # <<>>
    /\ Len(FindTemplate(getTemplates(ls), report.templateId)[1].customSections) > 0

\* the Download PDF button: a new one-page document; the header when a
\* profile is stored (report script), then the title, the address and the
\* satellite image, then checkPageBreak(cursorY, 200)
PdfStart ==
    /\ view = "report"
    /\ shown # <<>>
    /\ pdf.pc \in {"idle", "saved"}
    /\ LET header == IF app = "report" /\ getProfileData(localStorage) # <<>>
                     THEN 60 ELSE 0
       IN  AfterPageBreak("diagram", 1,
                          MARGIN + header + 30 + 30 + CONTENT_WIDTH + 20, 200, 0, 0)
    /\ alerted' = <<>>
    /\ UNCHANGED <<appVars, templateVars, quoteVars, svg, formVars>>

\* the diagram, drawn from the canvas html2canvas resolved with, then
\* checkPageBreak(cursorY, 150)
PdfDiagram(vizImgHeight) ==
    /\ pdf.pc = "diagram"
    /\ AfterPageBreak("table", pdf.pages, pdf.cursorY + 15 + vizImgHeight + 30, 150, 0, 0)
    /\ alerted' = <<>>
    /\ UNCHANGED <<appVars, templateVars, quoteVars, svg, formVars>>

\* the measurements table: autoTable adds the pages the table needs and ends
\* at finalY; the report script goes on from there, index.tsx saves
PdfTable(added, finalY) ==
    /\ pdf.pc = "table"
    /\ added = 0 => finalY > pdf.cursorY + 15
    /\ pdf' = [pdf EXCEPT
                  !.pc = IF app = "basic" THEN "save"
                         ELSE IF HasCustomSections(localStorage, shown[1])
                              THEN "sections" ELSE "save",
                  !.pages = @ + added,
                  !.cursorY = IF app = "basic" THEN @ + 15 ELSE finalY,
                  !.check = <<>>]
    /\ alerted' = <<>>
    /\ UNCHANGED <<appVars, templateVars, quoteVars, svg, formVars>>

\* the heading of the custom notes: checkPageBreak(cursorY, 40), then 30 and
\* 20 down; the one section is printed when it has content
PdfSectionsHead ==
    /\ pdf.pc = "sections"
    /\ LET template == FindTemplate(getTemplates(localStorage), shown[1].templateId)[1]
           sid == template.customSections[1].id
           content == IF sid \in DOMAIN shown[1].customData
                      THEN shown[1].customData[sid] ELSE ""
       IN  AfterPageBreak(IF content # "" THEN "section" ELSE "save",
                          pdf.pages, pdf.cursorY, 40, 30 + 20, 0)
    /\ alerted' = <<>>
    /\ UNCHANGED <<appVars, templateVars, quoteVars, svg, formVars>>

\* the title of a section with content: checkPageBreak(cursorY, 40), 15 down;
\* splitTextToSize cuts the content into lines
PdfSectionTitle(lines) ==
    /\ pdf.pc = "section"
    /\ AfterPageBreak("lines", pdf.pages, pdf.cursorY, 40, 15, lines)
    /\ alerted' = <<>>
    /\ UNCHANGED <<appVars, templateVars, quoteVars, svg, formVars>>

\* one line of the section: checkPageBreak(cursorY, 15), 15 down, and 10 more
\* after the last line
PdfLine ==
    /\ pdf.pc = "lines"
    /\ pdf.left > 0
    /\ AfterPageBreak(IF pdf.left = 1 THEN "save" ELSE "lines", pdf.pages,
                      pdf.cursorY, 15,
                      IF pdf.left = 1 THEN 15 + 10 ELSE 15, pdf.left - 1)
    /\ alerted' = <<>>
    /\ UNCHANGED <<appVars, templateVars, quoteVars, svg, formVars>>

\* doc.save
PdfSave ==
    /\ pdf.pc = "save"
    /\ pdf' = [pdf EXCEPT !.pc = "saved", !.check = <<>>]
    /\ alerted' = <<>>
    /\ UNCHANGED <<appVars, templateVars, quoteVars, svg, formVars>>

\* the report script and index.tsx: generating, viewing and editing reports;
\* local storage holds a template saved on an earlier visit. The address form
\* is submitted with an address; SpecAddress has the blank submits
Init ==
    /\ InitApp
    /\ app \in {"report", "basic"}
    /\ localStorage = SetItem(EmptyStorage, TEMPLATE_DATA_KEY, <<EarlierTemplate>>)

Next ==
    \/ openModal
    \/ closeModal
    \/ \E fullName \in UsualName : handleSignUpFormSubmit(fullName)
    \/ \E fullName \in UsualName : SignUpSubmitBasic(fullName)
    \/ ClickNewReport
    \/ ClickLogo
    \/ ClickHistoryNav
    \/ \E i \in 1..MaxCalls : ViewReport(i)
    \/ StartNewReport
    \/ \E input \in {a \in AddressInputs : Trim(a) # <<>>},
          templateId \in TemplateChoices(localStorage) :
          handleAddressSubmit(input, templateId)
    \/ \E c \in 1..MaxCalls, text \in MeasurementTexts : MeasurementsResponse(c, text)
    \/ \E c \in 1..MaxCalls : MeasurementsRejected(c)
    \/ \E c \in 1..MaxCalls, images \in GeneratedImages : ImageResponse(c, images)
    \/ \E c \in 1..MaxCalls : ImageRejected(c)
    \/ handleToggleEditMode
    \/ CancelEdit
    \/ \E inputs \in EditInputs, textareas \in TextareaContents :
          handleSaveChanges(inputs, textareas)
    \/ \E i \in 1..MaxTimers : ReportUpdateTimer(i)

Spec == Init /\ [][Next]_vars

\* the report script: the company profile
InitProfile ==
    /\ InitApp
    /\ app = "report"
    /\ localStorage = EmptyStorage

NextProfile ==
    \/ openModal
    \/ closeModal
    \/ \E fullName \in UsualName : handleSignUpFormSubmit(fullName)
    \/ ClickProfileNav
    \/ ClickLogo
    \/ \E companyName \in CompanyNames, file \in {""} \cup LogoFiles \cup UnreadableFiles :
          handleProfileSave(companyName, file)
    \/ \E i \in 1..MaxPending : ProfileSaveTimer(i)
    \/ \E i \in 1..MaxPending : ReaderLoad(i)
    \/ \E i \in 1..MaxPending : ReaderError(i)
    \/ \E i \in 1..MaxPending : ReenableTimer(i)

SpecProfile == InitProfile /\ [][NextProfile]_vars

\* the quote script; local storage may hold a quote saved on an earlier visit
EarlierQuote ==
    NewQuote(<<[quantity |-> Num(3), rate |-> Fin(2000, 100),
                total |-> ToFixed2(Num(60))]>>, 1)

InitQuote ==
    /\ app = "quote"
    /\ rows = <<>>
    /\ grandTotal = ToFixed2(Num(0))
    /\ svg = NoSvg
    /\ pdf = NoPdf
    /\ view = "landing"
    /\ modalHidden = TRUE
    /\ nav = [btnText |-> "Sign Up", btnListener |-> "openModal",
              profileHidden |-> TRUE, templatesHidden |-> TRUE,
              historyHidden |-> TRUE]
    /\ localStorage \in {EmptyStorage,
                          saveQuotesToStorage(EmptyStorage, <<EarlierQuote>>)}
    /\ clock = 1
    /\ calls = <<>>
    /\ shown = <<>>
    /\ editing = FALSE
    /\ btnDisabled = FALSE
    /\ timers = <<>>
    /\ readers = <<>>
    /\ atomicProfile = <<>>
    /\ cards = <<>>
    /\ editorId = <<>>
    /\ confirming = <<>>
    /\ alerted = <<>>
    /\ signUpName = <<>>

NextQuote ==
    \/ openModal
    \/ closeModal
    \/ \E fullName \in UsualName : SignUpSubmitQuote(fullName)
    \/ renderQuoteCreator
    \/ addLineItem
    \/ \E i \in 1..MaxRows, value \in QuantityInputs : InputQuantity(i, value)
    \/ \E i \in 1..MaxRows, value \in RateInputs : InputRate(i, value)
    \/ \E i \in 1..MaxRows : RemoveLineItem(i)
    \/ SubmitQuote
    \/ BackToDashboard

SpecQuote == InitQuote /\ [][NextQuote]_vars

\* the sign-up form of the three page scripts, with the pages it leads to
InitSignUp ==
    /\ InitApp
    /\ app \in Apps
    /\ localStorage = EmptyStorage

NextSignUp ==
    \/ openModal
    \/ closeModal
    \/ \E fullName \in NameInputs : handleSignUpFormSubmit(fullName)
    \/ \E fullName \in NameInputs : SignUpSubmitBasic(fullName)
    \/ \E fullName \in NameInputs : SignUpSubmitQuote(fullName)
    \/ ClickNewReport
    \/ ClickLogo
    \/ renderQuoteCreator
    \/ addLineItem
    \/ \E i \in 1..MaxRows, value \in QuantityInputs : InputQuantity(i, value)
    \/ \E i \in 1..MaxRows, value \in RateInputs : InputRate(i, value)
    \/ \E i \in 1..MaxRows : RemoveLineItem(i)
    \/ BackToDashboard

SpecSignUp == InitSignUp /\ [][NextSignUp]_vars

\* the PDF export of a report on display: a report made with or without the
\* stored template, its notes typed or not; a profile is stored or not
DisplayedReports ==
    {[id |-> 1, address |-> <<"a", " ", "b">>,
      imageUrl |-> ImageUrl("/9j/4AAQ"), measurements |-> AiMeasurements,
      timestamp |-> ToISOString(1), templateId |-> t, customData |-> d] :
        <<t, d>> \in {<<0, EmptyData>>,
                      <<EarlierTemplate.id, [sid \in {"new_1"} |-> ""]>>,
                      <<EarlierTemplate.id, [sid \in {"new_1"} |-> "checked"]>>}}

InitPdf ==
    /\ app \in {"report", "basic"}
    /\ \E report \in DisplayedReports :
          /\ app = "basic" => report.templateId = 0
          /\ shown = <<IF app = "basic" THEN [report EXCEPT !.id = 0,
                                                 !.timestamp = ToISOString(0)]
                       ELSE report>>
          /\ \E profile \in {<<>>, <<[NoProfile EXCEPT !.companyName = "Acme"]>>} :
                localStorage =
                    IF app = "basic" THEN EmptyStorage
                    ELSE [EmptyStorage EXCEPT ![TEMPLATE_DATA_KEY] = <<<<EarlierTemplate>>>>,
                                              ![REPORT_HISTORY_KEY] = <<<<report>>>>,
                                              ![PROFILE_DATA_KEY] = profile]
    /\ view = "report"
    /\ modalHidden = TRUE
    /\ nav = [btnText |-> "New Report", btnListener |-> "renderAddressInput",
              profileHidden |-> FALSE, templatesHidden |-> FALSE,
              historyHidden |-> FALSE]
    /\ clock = 1
    /\ calls = <<>>
    /\ editing = FALSE
    /\ btnDisabled = FALSE
    /\ timers = <<>>
    /\ readers = <<>>
    /\ atomicProfile = <<>>
    /\ cards = <<>>
    /\ editorId = <<>>
    /\ confirming = <<>>
    /\ alerted = <<>>
    /\ signUpName = <<>>
    /\ rows = <<>>
    /\ grandTotal = ToFixed2(Num(0))
    /\ svg = NoSvg
    /\ pdf = NoPdf

NextPdf ==
    \/ PdfStart
    \/ \E vizImgHeight \in VizHeights : PdfDiagram(vizImgHeight)
    \/ \E added \in {0, 1}, finalY \in TableEnds : PdfTable(added, finalY)
    \/ PdfSectionsHead
    \/ \E lines \in 1..MaxLines : PdfSectionTitle(lines)
    \/ PdfLine
    \/ PdfSave

SpecPdf == InitPdf /\ [][NextPdf]_vars

\* the diagram of the report view, for the measurements a report can hold
InitSVG ==
    /\ InitApp
    /\ app \in {"report", "basic"}
    /\ localStorage = EmptyStorage

NextSVG ==
    \E ridges \in LengthTexts, eaves \in LengthTexts, pitch \in PitchTexts :
        createRoofVisualizationSVG([ridges |-> ridges, eaves |-> eaves, pitch |-> pitch])

SpecSVG == InitSVG /\ [][NextSVG]_vars

(***************************************************************************)
(* Report generation: what a call of handleAddressSubmit leaves behind     *)
(***************************************************************************)
\* the stored report history
History == getReportHistory(localStorage)

\* this step is the one in which call c returns its report
Returns(c) == calls[c].status = "awaiting" /\ calls'[c].status = "returned"

\* this step is the one in which call c throws
Throws(c) == calls[c].status = "awaiting" /\ calls'[c].status = "threw"

\* report r holds the arguments call c was started with and the responses
\* it has received by the end of this step
HoldsResultOf(r, c) ==
    /\ r.address = calls[c].address
    /\ r.address # <<>>
    /\ IsTrimmed(r.address)
    /\ r.address \in {Trim(input) : input \in AddressInputs}
    /\ calls'[c].images # <<>>
    /\ r.imageUrl = ImageUrl(calls'[c].images[1])
    /\ calls'[c].text.parsable
    /\ r.measurements = calls'[c].text.object
    /\ r.templateId = calls[c].templateId

\* this step puts exactly one new report, that of call c, into the stored
\* history and shows that report
StoresAndShows(c) ==
    /\ Len(History') = Len(History) + 1
    /\ Tail(History') = History
    /\ \A k \in StorageKeys \ {REPORT_HISTORY_KEY} : localStorage'[k] = localStorage[k]
    /\ HoldsResultOf(History'[1], c)
    /\ view' = "report"
    /\ shown' = <<History'[1]>>

\* this step shows the report of call c and stores nothing
ShowsOnly(c) ==
    /\ localStorage' = localStorage
    /\ view' = "report"
    /\ Len(shown') = 1
    /\ HoldsResultOf(shown'[1], c)

\* C1, as the specification states it: whenever a call of handleAddressSubmit
\* with a non-blank address gets both responses, with a parsable payload and
\* an image, the step adds exactly one report to the stored history, holding
\* the trimmed address, the image, the measurements and the selected template
\* id, and shows that report.  index.tsx has a handleAddressSubmit too, and
\* that one stores nothing.
C1_EveryHandlerStores ==
    [][\A c \in DOMAIN calls : Returns(c) => StoresAndShows(c)]_vars

\* C1, amended: the handleAddressSubmit of the report script adds exactly one
\* report to the stored history, holding the trimmed address, the image, the
\* measurements and the selected template id, and shows it; the
\* handleAddressSubmit of index.tsx shows a report holding the trimmed
\* address, the image and the measurements and leaves local storage alone.
C1_ReportStoredAndShown ==
    [][\A c \in DOMAIN calls :
          Returns(c) => IF app = "report" THEN StoresAndShows(c) ELSE ShowsOnly(c)]_vars

\* a second report, made with the stored template selected, has just been
\* stored in front of the first and is on display
C1_Witness ==
    /\ app = "report"
    /\ view = "report"
    /\ Len(History) = 2
    /\ shown = <<History[1]>>
    /\ History[1].templateId = EarlierTemplate.id
    /\ History[1].address = <<"a", " ", "b">>
    /\ \A c \in DOMAIN calls : calls[c].status = "returned"

\* a report holds both an image and the measurements of a parsed payload
Complete(r) ==
    /\ r.imageUrl \in {ImageUrl(images[1]) : images \in GeneratedImages \ {<<>>}}
    /\ r.measurements \in
          {text.object : text \in {t \in MeasurementTexts : t.parsable}}
             \cup {EditedMeasurements}

\* a call has returned a report only if both requests were fulfilled, the text
\* parsed and there was an image
ReturnedOnlyOnSuccess ==
    \A c \in DOMAIN calls :
        calls[c].status = "returned" =>
            /\ calls[c].measSt = "fulfilled" /\ calls[c].imgSt = "fulfilled"
            /\ calls[c].text.parsable
            /\ calls[c].images # <<>>

\* a call whose requests have both been answered, or one of them rejected, is
\* no longer awaited
SettledIsHandled ==
    \A c \in DOMAIN calls :
        calls[c].status = "awaiting" =>
            /\ calls[c].measSt # "rejected" /\ calls[c].imgSt # "rejected"
            /\ calls[c].measSt = "pending" \/ calls[c].imgSt = "pending"

\* C2: when report generation fails (a request is rejected, the text is not
\* JSON, no image comes back) the call throws, and the step in which it
\* throws leaves local storage unchanged and shows the address form; every
\* report stored or displayed holds both an image and measurements.
C2_FailureStoresNothing ==
    /\ [](ReturnedOnlyOnSuccess /\ SettledIsHandled)
    /\ [](/\ \A i \in 1..Len(History) : Complete(History[i])
          /\ \A i \in 1..Len(shown) : Complete(shown[i]))
    /\ [][\A c \in DOMAIN calls :
             Throws(c) => localStorage' = localStorage /\ view' = "address"]_vars

\* after one report was stored, a second call got both responses, one of them
\* unusable, and threw: the address form is back and the history still holds
\* the one report
C2_Witness ==
    /\ app = "report"
    /\ view = "address"
    /\ Len(History) = 1
    /\ \E c \in DOMAIN calls :
          /\ calls[c].status = "threw"
          /\ calls[c].measSt = "fulfilled"
          /\ calls[c].imgSt = "fulfilled"

(***************************************************************************)
(* getRoofReport: the two parallel requests                                *)
(***************************************************************************)
\* call c has sent exactly one measurements request and one image request
OnePairOfRequests(c) == calls[c].measN = 1 /\ calls[c].imgN = 1

\* the requests that have been sent and not yet answered
PendingRequests ==
    {<<c, "measurements">> : c \in {d \in DOMAIN calls : calls[d].measSt = "pending"}}
       \cup {<<c, "image">> : c \in {d \in DOMAIN calls : calls[d].imgSt = "pending"}}

\* the operations in flight: unanswered requests, timers that have not run,
\* files being read
InFlight == Cardinality(PendingRequests) + Len(timers) + Len(readers)

\* each call sends one request of each kind, both before it awaits; while it
\* awaits, neither request is rejected and at least one is unanswered; it
\* returns a report only with both fulfilled; it has thrown only with one
\* rejected or both fulfilled
PairAwaitedTogether ==
    \A c \in DOMAIN calls :
        /\ OnePairOfRequests(c)
        /\ calls[c].status = "awaiting" =>
              /\ calls[c].measSt # "rejected" /\ calls[c].imgSt # "rejected"
              /\ calls[c].measSt = "pending" \/ calls[c].imgSt = "pending"
        /\ calls[c].status = "returned" =>
              calls[c].measSt = "fulfilled" /\ calls[c].imgSt = "fulfilled"
        /\ calls[c].status = "threw" =>
              \/ calls[c].measSt = "rejected" \/ calls[c].imgSt = "rejected"
              \/ calls[c].measSt = "fulfilled" /\ calls[c].imgSt = "fulfilled"

\* whenever two or more operations are in flight, they are the two requests
\* of one call
OnlyOnePairInFlight ==
    InFlight >= 2 =>
        /\ timers = <<>> /\ readers = <<>>
        /\ \E c \in DOMAIN calls :
              PendingRequests = {<<c, "measurements">>, <<c, "image">>}

\* C3, as the specification states it: each call of getRoofReport sends one
\* measurements request and one image request, both before it awaits either,
\* and returns only after both have completed; and these two requests are the
\* only operations of the app in flight at the same time.
C3_OnlyPairInFlight == PairAwaitedTogether /\ OnlyOnePairInFlight

\* C3, amended: each call of getRoofReport sends exactly one measurements
\* request and one image request, both before it awaits either, returns a
\* report only after both were fulfilled, whichever came first, and throws
\* only after one was rejected or both were fulfilled.  (The requests of two
\* calls, and timers, can be in flight together.)
C3_PairAwaitedTogether == PairAwaitedTogether

\* one call has returned its report, and a second call, started while the
\* first was running, has its measurements and still waits for its image
C3_Witness ==
    /\ Len(calls) = 2
    /\ calls[1].status = "returned"
    /\ calls[2].status = "awaiting"
    /\ calls[2].measSt = "fulfilled"
    /\ calls[2].imgSt = "pending"

(***************************************************************************)
(* The stored report history                                               *)
(***************************************************************************)
\* ids, the creation times, do not increase along the list
MostRecentFirst(history) ==
    \A i, j \in 1..Len(history) : i < j => history[i].id >= history[j].id

\* this step puts one report in front of the history and keeps the rest
Prepends ==
    /\ Len(History') = Len(History) + 1
    /\ Tail(History') = History
    /\ History'[1].id >= clock

\* this step keeps every report at its place, with its id and its time of
\* creation
KeepsPlaces ==
    /\ Len(History') = Len(History)
    /\ \A i \in 1..Len(History) :
          /\ History'[i].id = History[i].id
          /\ History'[i].timestamp = History[i].timestamp
          /\ History'[i].address = History[i].address

\* C10: saveReportToHistory puts the new report first and keeps the earlier
\* reports in their order, an edit keeps every report at its place, so the
\* stored history always runs from the most recently created report to the
\* oldest; no step removes a report: the length of the history never
\* decreases.
C10_MostRecentFirst ==
    /\ [](MostRecentFirst(History))
    /\ [][Prepends \/ KeepsPlaces]_vars
    /\ [][Len(History') >= Len(History)]_vars
    /\ [][\A c \in DOMAIN calls : (app = "report" /\ Returns(c)) => Prepends]_vars

\* two reports are stored and the older one, still second, has been edited
C10_Witness ==
    /\ Len(History) = 2
    /\ History[1].id > History[2].id
    /\ History[2].measurements = EditedMeasurements
    /\ History[1].measurements = AiMeasurements

(***************************************************************************)
(* Deferred callbacks and local storage                                    *)
(***************************************************************************)
\* no profile save is waiting for its timer or for its file
NoProfileSavePending ==
    /\ readers = <<>>
    /\ \A i \in DOMAIN timers : timers[i].kind # "profileSave"

\* C4, as the specification states it: the deferred callbacks need no
\* coordination; once they have run, local storage holds what it would hold
\* had every save been carried out in full at the moment of its submit, and
\* no stored update is lost.  Here for the profile: atomicProfile is the
\* profile those immediate saves would have left.
C4_AsIfSavedAtSubmit ==
    NoProfileSavePending => localStorage[PROFILE_DATA_KEY] = atomicProfile

(***************************************************************************)
(* The quote creator                                                       *)
(***************************************************************************)
\* a blank or non-numeric input counts as 0
BlankAsZero(x) == IF x.k = "nan" THEN Num(0) ELSE x

\* quantity x rate of a row
Amount(item) == JsMul(BlankAsZero(item.quantity), BlankAsZero(item.rate))

\* the sum of quantity x rate over the first n rows
RECURSIVE AmountsUpTo(_, _)
AmountsUpTo(items, n) ==
    IF n = 0 THEN Num(0) ELSE JsAdd(AmountsUpTo(items, n - 1), Amount(items[n]))

\* C5: in the quote creator, whatever rows were added, removed or edited, the
\* grand total on display is the sum of quantity x rate over the rows present,
\* a blank input counting as 0, and the total on display in each row is that
\* row's quantity x rate (both shown with two decimals).
C5_TotalsMatchRows ==
    view = "quoteCreator" =>
        /\ grandTotal = ToFixed2(AmountsUpTo(rows, Len(rows)))
        /\ \A i \in DOMAIN rows : rows[i].total = ToFixed2(Amount(rows[i]))

\* a rate was typed into the first row and a second row was added after it
C5_Witness ==
    /\ view = "quoteCreator"
    /\ Len(rows) = 2
    /\ rows[1].quantity = Num(1)
    /\ rows[1].rate = Fin(1050, 100)
    /\ rows[2].rate = NaN
    /\ grandTotal = ToFixed2(Fin(1050, 100))

\* the stored quotes
Quotes == getQuotesFromStorage(localStorage)

\* C6: the step that submits the quote form with at least one line item
\* appends exactly one quote to the end of the stored list and leaves the
\* quotes stored before unchanged and in their order, with the rest of local
\* storage; the Back to Dashboard step leaves local storage unchanged; no
\* other step of the quote script changes the stored quotes.
C6_SubmitAppendsOne ==
    /\ [][(view = "quoteCreator" /\ clock' # clock) =>
             /\ Len(rows) >= 1
             /\ Len(Quotes') = Len(Quotes) + 1
             /\ SubSeq(Quotes', 1, Len(Quotes)) = Quotes
             /\ Len(Quotes'[Len(Quotes')].lineItems) = Len(rows)
             /\ \A k \in StorageKeys \ {QUOTES_KEY} :
                   localStorage'[k] = localStorage[k]
             /\ view' = "dashboard"]_vars
    /\ [][(/\ view = "quoteCreator" /\ view' = "dashboard"
           /\ clock' = clock /\ modalHidden' = modalHidden) =>
             localStorage' = localStorage]_vars
    /\ [][Quotes' # Quotes => (view = "quoteCreator" /\ clock' # clock)]_vars

\* a quote with two line items was submitted and stored behind the quote of
\* the earlier visit
C6_Witness ==
    /\ view = "dashboard"
    /\ Len(Quotes) = 2
    /\ Quotes[1] = EarlierQuote
    /\ Len(Quotes[2].lineItems) = 2

(***************************************************************************)
(* Sign-up                                                                 *)
(***************************************************************************)
\* the contractorUserName item holds the name of the last sign-up, trimmed
NameStored == localStorage[USER_NAME_KEY] = <<Trim(signUpName[1])>>

\* C7, as the specification states it: once the sign-up form was submitted,
\* local storage holds the entered name, trimmed, under contractorUserName,
\* whichever of the sign-up submit handlers ran.
C7_EveryHandlerStoresName == signUpName # <<>> => NameStored

\* C7, amended: the sign-up submit listeners of index.tsx and of the quote
\* script store the entered name, trimmed, under contractorUserName;
\* handleSignUpFormSubmit of the report script stores nothing, so there the
\* item stays absent.
C7_ListenersStoreName ==
    /\ (signUpName # <<>> /\ app \in {"basic", "quote"}) => NameStored
    /\ app = "report" => localStorage[USER_NAME_KEY] = <<>>

\* the quote script's form was submitted with a name typed between spaces
C7_Witness ==
    /\ app = "quote"
    /\ signUpName = << <<" ", "J", " ">> >>
    /\ localStorage[USER_NAME_KEY] = << <<"J">> >>
    /\ view = "dashboard"

(***************************************************************************)
(* PDF export                                                              *)
(***************************************************************************)
\* C8: checkPageBreak(currentY, itemHeight) adds one page and returns the top
\* margin, 40, exactly when currentY + itemHeight is greater than the page
\* height minus the margin; otherwise it adds no page and returns currentY;
\* while an export runs, the number of pages of its document never decreases.
C8_PageBreakAtMargin ==
    /\ [](\A i \in 1..Len(pdf.check) :
             LET c == pdf.check[i]
             IN  IF c.currentY + c.itemHeight > PAGE_HEIGHT - 40
                 THEN c.pagesAfter = c.pagesBefore + 1 /\ c.returned = 40
                 ELSE c.pagesAfter = c.pagesBefore /\ c.returned = c.currentY)
    /\ [][pdf.pc \notin {"idle", "saved"} => pdf'.pages >= pdf.pages]_vars
    /\ [](pdf.check # <<>> => pdf.pages = pdf.check[1].pagesAfter)

\* a diagram ended exactly 150 above the bottom margin, so checkPageBreak
\* added no page there; a later line of notes did not fit and went to a new
\* page
C8_Witness ==
    /\ pdf.pc = "save"
    /\ pdf.pages = 3
    /\ pdf.check # <<>>
    /\ pdf.check[1].itemHeight = 15
    /\ pdf.check[1].currentY + 15 > PAGE_HEIGHT - MARGIN
    /\ pdf.check[1].returned = MARGIN

(***************************************************************************)
(* The roof diagram                                                        *)
(***************************************************************************)
\* x is a number: not NaN
Defined(x) == x.k # "nan"

\* x is not 0
NonZero(x) == ~(x.k = "fin" /\ x.n = 0)

\* C9, as the specification states it: createRoofVisualizationSVG falls back
\* on ridge 100, eaves 200, rise 6 and run 12 whenever the text does not parse
\* to a non-zero number, so for every input the divisors ridgeLength and run
\* are not zero and rectHeight and triHeight are defined numbers.
C9_GeometryDefined ==
    \A i \in 1..Len(svg.computed) :
        LET g == svg.computed[i]
        IN  /\ Defined(g.ridgeLength) /\ NonZero(g.ridgeLength)
            /\ Defined(g.run) /\ NonZero(g.run)
            /\ Defined(g.rectHeight)
            /\ Defined(g.triHeight)

(***************************************************************************)
(* updateReportInHistory over the histories it can meet                    *)
(***************************************************************************)
\* the data-id of a section item added at time now: `new_${Date.now()}`
NewSectionId(now) == <<"new_", now>>

\* a template stored on an earlier visit, created at time id
StoredTemplate(id) ==
    [id |-> id, name |-> <<"R">>,
     customSections |-> <<[id |-> NewSectionId(id), title |-> <<"N">>]>>]

\* a report as saveReportToHistory stores it, made without a template
StoredReport(id, address) ==
    [id |-> id, address |-> address, imageUrl |-> ImageUrl("/9j/4AAQ"),
     measurements |-> AiMeasurements, timestamp |-> ToISOString(id),
     templateId |-> 0, customData |-> EmptyData]

\* the histories unshift builds from ids of Date.now(): newest first, and two
\* reports of the same millisecond share an id. A report is plain, or was made
\* with template 1 when that had a section more than it has now, and has a
\* note for that section
StoredHistories ==
    LET noted(r) == [r EXCEPT !.templateId = 1,
                              !.customData = [sid \in {NewSectionId(0), NewSectionId(1)} |->
                                                 IF sid = NewSectionId(0) THEN "kept" ELSE ""]]
        reports == {StoredReport(id, <<"a">>) : id \in 1..2}
                      \cup {noted(StoredReport(id, <<"b">>)) : id \in 1..2}
    IN  {<<>>} \cup {<<r>> : r \in reports}
               \cup {pair \in reports \X reports : pair[2].id <= pair[1].id}

\* Save Changes was clicked for a report and its timer is pending; local storage
\* is shared with the other tabs of the origin, so the report may not be stored
InitUpdate ==
    /\ app = "report"
    /\ localStorage \in {[EmptyStorage EXCEPT
                               ![REPORT_HISTORY_KEY] = <<history>>,
                               ![TEMPLATE_DATA_KEY] = <<<<StoredTemplate(1)>>>>] :
                            history \in StoredHistories}
    /\ \E id \in 1..3 :
          /\ shown = <<StoredReport(id, <<"a">>)>>
          /\ timers = <<ReportUpdateCallback(
                 UpdatedReport(StoredReport(id, <<"a">>), EditedMeasurements, EmptyData))>>
    /\ view = "report"
    /\ editing = TRUE
    /\ btnDisabled = TRUE
    /\ modalHidden = TRUE
    /\ nav = [btnText |-> "New Report", btnListener |-> "renderAddressInput",
              profileHidden |-> FALSE, templatesHidden |-> FALSE,
              historyHidden |-> FALSE]
    /\ clock = 3
    /\ calls = <<>>
    /\ readers = <<>>
    /\ atomicProfile = <<>>
    /\ cards = <<>>
    /\ editorId = <<>>
    /\ confirming = <<>>
    /\ alerted = <<>>
    /\ signUpName = <<>>
    /\ rows = <<>>
    /\ grandTotal = ToFixed2(Num(0))
    /\ svg = NoSvg
    /\ pdf = NoPdf

NextUpdate ==
    \/ \E i \in 1..MaxTimers : ReportUpdateTimer(i)
    \/ handleToggleEditMode
    \/ CancelEdit
    \/ \E inputs \in EditInputs, textareas \in TextareaContents :
          handleSaveChanges(inputs, textareas)
    \/ ClickHistoryNav
    \/ \E i \in 1..MaxCalls : ViewReport(i)

SpecUpdate == InitUpdate /\ [][NextUpdate]_vars

(***************************************************************************)
(* C11                                                                     *)
(***************************************************************************)
\* the step is the run of the reportUpdate timer at place i
UpdateTimerRuns(i) ==
    /\ CanFire(i)
    /\ timers[i].kind = "reportUpdate"
    /\ timers' = Detached(Remove(timers, i))
    /\ shown' = timers[i].report

\* the stored history after the step is the one before it with report r put in
\* the place of one report of its id, and nothing else of local storage differs
ReplacesOneReport(r) ==
    LET before == getReportHistory(localStorage)
        after == getReportHistory(localStorage')
        hits == {p \in 1..Len(before) : before[p].id = r.id}
    IN  IF hits = {} THEN localStorage' = localStorage
        ELSE /\ Len(after) = Len(before)
             /\ \E p \in hits :
                   /\ after[p] = r
                   /\ \A q \in 1..Len(before) : q # p => after[q] = before[q]
             /\ \A k \in StorageKeys \ {REPORT_HISTORY_KEY} :
                   localStorage'[k] = localStorage[k]

\* C11: updateReportInHistory(r) puts r in the place of the stored report with
\* r's id and leaves every other stored report, the length of the history and
\* the other storage items as they were; when no stored report has r's id,
\* local storage is not written
C11_UpdateReplacesInPlace ==
    [][\A i \in DOMAIN timers :
          UpdateTimerRuns(i) => ReplacesOneReport(timers[i].report[1])]_vars

\* an edited report has replaced the second of two stored reports, and the
\* first one is still the report the AI returned
C11_Witness ==
    /\ timers = <<>>
    /\ shown # <<>>
    /\ shown[1].measurements = EditedMeasurements
    /\ Len(getReportHistory(localStorage)) = 2
    /\ getReportHistory(localStorage)[2] = shown[1]
    /\ getReportHistory(localStorage)[1].measurements = AiMeasurements

(***************************************************************************)
(* Report templates                                                        *)
(***************************************************************************)
\* what #template-name can hold at submit: blank, or a name with spaces round it
TemplateNameInputs == { <<" ">>, <<" ", "A", " ">> }

\* the .custom-section-item rows the editor form can hold at submit time now:
\* none, one titled row, or a row with a blank title and a row added last
SectionItemInputs(now) ==
    { <<>>,
      <<[id |-> NewSectionId(1), title |-> <<"N">>]>>,
      <<[id |-> NewSectionId(1), title |-> <<" ">>],
        [id |-> NewSectionId(now), title |-> <<" ", "M", " ">>]>> }

\* the Create New Template and Create Your First Template buttons
ClickCreateTemplate ==
    /\ view = "templates"
    /\ Render("templateEditor")
    /\ cards' = <<>>
    /\ editorId' = <<>>
    /\ alerted' = <<>>
    /\ UNCHANGED <<app, modalHidden, nav, localStorage, clock, calls, atomicProfile,
                   confirming, quoteVars, docVars, formVars>>

\* the Edit button of card i: the template is found in the list the view was
\* rendered from
ClickEditTemplate(i) ==
    /\ view = "templates"
    /\ i \in DOMAIN cards
    /\ Render("templateEditor")
    /\ cards' = <<>>
    /\ editorId' = <<cards[i]>>
    /\ alerted' = <<>>
    /\ UNCHANGED <<app, modalHidden, nav, localStorage, clock, calls, atomicProfile,
                   confirming, quoteVars, docVars, formVars>>

\* the Cancel button of the template editor
CancelTemplateEdit ==
    /\ view = "templateEditor"
    /\ renderTemplatesView(localStorage)
    /\ alerted' = <<>>
    /\ UNCHANGED <<app, modalHidden, nav, localStorage, clock, calls, atomicProfile,
                   confirming, quoteVars, docVars, formVars>>

\* the sections handleTemplateSave collects: rows with a blank title are skipped
CollectSections(items) ==
    LET titled == SelectSeq(items, LAMBDA item : Trim(item.title) # <<>>)
    IN  [i \in 1..Len(titled) |-> [id |-> titled[i].id, title |-> Trim(titled[i].title)]]

\* the submit of the template editor form
handleTemplateSave(name, items) ==
    /\ view = "templateEditor"
    /\ IF Trim(name) = <<>>
       THEN /\ alerted' = <<"Please enter a template name.">>
            /\ UNCHANGED <<appVars, templateVars, quoteVars, docVars, formVars>>
       ELSE /\ clock < 2 + MaxCreated
            /\ clock' = clock + 1
            /\ localStorage' =
                  saveTemplate(localStorage,
                               [id |-> IF editorId = <<>> THEN 0 ELSE editorId[1],
                                name |-> Trim(name),
                                customSections |-> CollectSections(items)],
                               clock')
            /\ renderTemplatesView(localStorage')
            /\ alerted' = <<>>
            /\ UNCHANGED <<app, modalHidden, nav, calls, atomicProfile, confirming,
                           quoteVars, docVars, formVars>>

\* the Delete button of card i: confirm() opens and blocks the page
ClickDeleteTemplate(i) ==
    /\ view = "templates"
    /\ i \in DOMAIN cards
    /\ confirming' = <<[templateId |-> cards[i], answer |-> "open"]>>
    /\ alerted' = <<>>
    /\ UNCHANGED <<appVars, cards, editorId, quoteVars, docVars, formVars>>

\* the user answers the dialog: OK or Cancel
AnswerConfirm(ok) ==
    /\ confirming # <<>>
    /\ confirming[1].answer = "open"
    /\ confirming' = <<[confirming[1] EXCEPT !.answer = IF ok THEN "ok" ELSE "cancel"]>>
    /\ alerted' = <<>>
    /\ UNCHANGED <<appVars, cards, editorId, quoteVars, docVars, formVars>>

\* confirm() returns and the Delete listener goes on
ResumeDelete ==
    /\ confirming # <<>>
    /\ confirming[1].answer # "open"
    /\ confirming' = <<>>
    /\ IF confirming[1].answer = "ok"
       THEN /\ localStorage' = deleteTemplate(localStorage, confirming[1].templateId)
            /\ renderTemplatesView(localStorage')
            /\ alerted' = <<>>
            /\ UNCHANGED <<app, modalHidden, nav, clock, calls, atomicProfile,
                           quoteVars, docVars, formVars>>
       ELSE /\ alerted' = <<>>
            /\ UNCHANGED <<appVars, cards, editorId, quoteVars, docVars, formVars>>

\* the templates view of a signed-up user, rendered from a stored list; another
\* tab of the page may have deleted some of its templates since. A report and a
\* profile are stored
InitTemplates ==
    /\ app = "report"
    /\ \E rendered \in {<<>>, <<StoredTemplate(1)>>,
                        <<StoredTemplate(2), StoredTemplate(1)>>},
          deleted \in SUBSET {1, 2} :
          /\ cards = [i \in 1..Len(rendered) |-> rendered[i].id]
          /\ deleted \subseteq {rendered[i].id : i \in 1..Len(rendered)}
          /\ localStorage =
                [EmptyStorage EXCEPT
                    ![REPORT_HISTORY_KEY] = <<<<StoredReport(1, <<"a">>)>>>>,
                    ![PROFILE_DATA_KEY] = <<[NoProfile EXCEPT !.companyName = "Acme"]>>,
                    ![TEMPLATE_DATA_KEY] =
                        IF rendered = <<>> THEN <<>>
                        ELSE <<SelectSeq(rendered, LAMBDA t : t.id \notin deleted)>>]
    /\ view = "templates"
    /\ editorId = <<>>
    /\ confirming = <<>>
    /\ alerted = <<>>
    /\ shown = <<>>
    /\ timers = <<>>
    /\ editing = FALSE
    /\ btnDisabled = FALSE
    /\ modalHidden = TRUE
    /\ nav = [btnText |-> "New Report", btnListener |-> "renderAddressInput",
              profileHidden |-> FALSE, templatesHidden |-> FALSE,
              historyHidden |-> FALSE]
    /\ clock = 2
    /\ calls = <<>>
    /\ readers = <<>>
    /\ atomicProfile = <<>>
    /\ signUpName = <<>>
    /\ rows = <<>>
    /\ grandTotal = ToFixed2(Num(0))
    /\ svg = NoSvg
    /\ pdf = NoPdf

\* while confirm() is open no listener of the page runs
NextTemplates ==
    \/ confirming = <<>> /\ ClickTemplatesNav
    \/ confirming = <<>> /\ ClickLogo
    \/ confirming = <<>> /\ ClickCreateTemplate
    \/ \E i \in 1..(2 + MaxCreated) : confirming = <<>> /\ ClickEditTemplate(i)
    \/ confirming = <<>> /\ CancelTemplateEdit
    \/ \E name \in TemplateNameInputs, items \in SectionItemInputs(clock) :
          confirming = <<>> /\ handleTemplateSave(name, items)
    \/ \E i \in 1..(2 + MaxCreated) : confirming = <<>> /\ ClickDeleteTemplate(i)
    \/ \E ok \in BOOLEAN : AnswerConfirm(ok)
    \/ ResumeDelete

SpecTemplates == InitTemplates /\ [][NextTemplates]_vars

(***************************************************************************)
(* C12                                                                     *)
(***************************************************************************)
TemplateIds(ls) == {getTemplates(ls)[i].id : i \in 1..Len(getTemplates(ls))}

\* the step is a submit of the template editor that saves: the only step that
\* reads the clock while the editor is in view
TemplateSaved == view = "templateEditor" /\ clock' # clock

\* one template with an id no stored template has is put in front of the others
OneCreatedInFront ==
    LET before == getTemplates(localStorage)
        after == getTemplates(localStorage')
    IN  /\ Len(after) = Len(before) + 1
        /\ after[1].id # 0
        /\ after[1].id \notin TemplateIds(localStorage)
        /\ \A i \in 1..Len(before) : after[i + 1] = before[i]

\* the template with this id is replaced where it is: same id, same place, same
\* number of templates, the other templates as they were
OneReplacedInPlace(id) ==
    LET before == getTemplates(localStorage)
        after == getTemplates(localStorage')
    IN  /\ Len(after) = Len(before)
        /\ \E p \in 1..Len(before) :
              /\ before[p].id = id
              /\ after[p].id = id
              /\ after[p].name = <<"A">>
              /\ \A q \in 1..Len(before) : q # p => after[q] = before[q]

DialogReturns(answer) ==
    /\ confirming # <<>>
    /\ confirming[1].answer = answer
    /\ confirming' = <<>>

\* every storage item but the templates is as it was
OtherItemsKept ==
    \A k \in StorageKeys \ {TEMPLATE_DATA_KEY} : localStorage'[k] = localStorage[k]

\* the stored templates after the step are those before it whose id is not
\* templateId, in the same order
OnlyTemplateRemoved(templateId) ==
    getTemplates(localStorage') =
        SelectSeq(getTemplates(localStorage), LAMBDA t : t.id # templateId)

\* C13: a confirmed Delete removes from storage exactly the template with the
\* card's id, keeps the other templates and their order and leaves the stored
\* history, profile and quotes unchanged; a template leaves storage only by a
\* confirmed Delete; a declined Delete leaves local storage unchanged, and so
\* does the Delete of an id that is not stored
C13_DeleteRemovesOne ==
    [][/\ DialogReturns("ok") =>
             /\ OnlyTemplateRemoved(confirming[1].templateId)
             /\ OtherItemsKept
             /\ confirming[1].templateId \notin TemplateIds(localStorage) =>
                   localStorage' = localStorage
       /\ DialogReturns("cancel") => localStorage' = localStorage
       /\ ~(TemplateIds(localStorage) \subseteq TemplateIds(localStorage')) =>
             DialogReturns("ok")]_vars

\* a template was created and then deleted again after an OK: the two templates
\* stored before are all that is stored, as they were
C13_Witness ==
    /\ view = "templates"
    /\ confirming = <<>>
    /\ clock = 3
    /\ cards = <<2, 1>>
    /\ getTemplates(localStorage) = <<StoredTemplate(2), StoredTemplate(1)>>

(***************************************************************************)
(* Reports made with a template that is edited or deleted meanwhile         *)
(***************************************************************************)
\* the address form of a signed-up user who stored a template earlier
InitCustomData ==
    /\ app = "report"
    /\ localStorage = SetItem(EmptyStorage, TEMPLATE_DATA_KEY, <<StoredTemplate(1)>>)
    /\ view = "address"
    /\ cards = <<>>
    /\ editorId = <<>>
    /\ confirming = <<>>
    /\ alerted = <<>>
    /\ shown = <<>>
    /\ timers = <<>>
    /\ editing = FALSE
    /\ btnDisabled = FALSE
    /\ modalHidden = TRUE
    /\ nav = [btnText |-> "New Report", btnListener |-> "renderAddressInput",
              profileHidden |-> FALSE, templatesHidden |-> FALSE,
              historyHidden |-> TRUE]
    /\ clock = 2
    /\ calls = <<>>
    /\ readers = <<>>
    /\ atomicProfile = <<>>
    /\ signUpName = <<>>
    /\ rows = <<>>
    /\ grandTotal = ToFixed2(Num(0))
    /\ svg = NoSvg
    /\ pdf = NoPdf

\* while the report is being generated the nav bar stays usable: the templates
\* can be edited or deleted before the report is saved
NextCustomData ==
    \/ confirming = <<>> /\ ClickNewReport
    \/ \E templateId \in TemplateChoices(localStorage) :
          confirming = <<>> /\ handleAddressSubmit(<<"a">>, templateId)
    \/ \E c \in 1..MaxCalls :
          confirming = <<>> /\ MeasurementsResponse(c, [parsable |-> TRUE, object |-> AiMeasurements])
    \/ \E c \in 1..MaxCalls : confirming = <<>> /\ ImageResponse(c, <<"/9j/4AAQ">>)
    \/ confirming = <<>> /\ ClickTemplatesNav
    \/ confirming = <<>> /\ ClickEditTemplate(1)
    \/ confirming = <<>> /\ handleTemplateSave(<<" ", "A", " ">>,
           <<[id |-> NewSectionId(1), title |-> <<"N">>],
             [id |-> NewSectionId(clock), title |-> <<"M">>]>>)
    \/ confirming = <<>> /\ ClickDeleteTemplate(1)
    \/ \E ok \in BOOLEAN : AnswerConfirm(ok)
    \/ ResumeDelete

SpecCustomData == InitCustomData /\ [][NextCustomData]_vars

(***************************************************************************)
(* C14                                                                     *)
(***************************************************************************)
\* the step stores a new report
ReportCreated ==
    Len(getReportHistory(localStorage')) = Len(getReportHistory(localStorage)) + 1

\* the new report's customData has a key per custom section of the template,
\* each with the empty string as its value
KeyedBySections(report, template) ==
    /\ DOMAIN report.customData =
          {template.customSections[j].id : j \in 1..Len(template.customSections)}
    /\ \A sid \in DOMAIN report.customData : report.customData[sid] = ""

\* C14: a report created with a template that is stored when the report is
\* created gets a customData map whose keys are exactly the ids of that
\* template's custom sections, each mapped to the empty string; a report
\* created with no template, or with a template id that is not stored then, gets
\* an empty customData map
C14_CustomDataFromTemplate ==
    [][ReportCreated =>
          LET report == getReportHistory(localStorage')[1]
              templates == getTemplates(localStorage)
              stored == {i \in 1..Len(templates) : templates[i].id = report.templateId}
          IN  IF report.templateId # 0 /\ stored # {}
              THEN \E i \in stored : KeyedBySections(report, templates[i])
              ELSE DOMAIN report.customData = {}]_vars

\* two reports were made with the template: one while it was stored, after a
\* section had been added to it, and one after it had been deleted
C14_Witness ==
    \E i, j \in 1..Len(getReportHistory(localStorage)) :
        /\ getReportHistory(localStorage)[i].templateId = 1
        /\ Cardinality(DOMAIN getReportHistory(localStorage)[i].customData) = 2
        /\ getReportHistory(localStorage)[j].templateId = 1
        /\ DOMAIN getReportHistory(localStorage)[j].customData = {}

(***************************************************************************)
(* C15                                                                     *)
(***************************************************************************)
\* the step is a click on Save Changes: its timer is set
SaveChangesClicked == view = "report" /\ editing /\ Len(timers') = Len(timers) + 1

\* report is original with the measurements typed in the seven inputs and the
\* notes typed in the textareas of the displayed sections, and nothing else
\* changed
HoldsWhatWasTyped(report, original) ==
    /\ \A key \in MeasurementKeys : report.measurements[key] = EditedMeasurements[key]
    /\ DOMAIN report.measurements = MeasurementKeys
    /\ \A sid \in DisplayedSections(localStorage, original) :
          sid \in DOMAIN report.customData /\ report.customData[sid] \in NoteTexts
    /\ \A sid \in DOMAIN original.customData \ DisplayedSections(localStorage, original) :
          sid \in DOMAIN report.customData
             /\ report.customData[sid] = original.customData[sid]
    /\ report.id = original.id
    /\ report.address = original.address
    /\ report.imageUrl = original.imageUrl
    /\ report.timestamp = original.timestamp
    /\ report.templateId = original.templateId

\* C15: the report Save Changes saves has the values typed in the seven inputs
\* and the texts of the textareas of the displayed sections, keeps the id,
\* address, imageUrl, timestamp and templateId of the report on display and
\* its customData entries for sections that are not displayed; when the save
\* completes, a stored report with that id is this report, and the report
\* view shows it
C15_SaveChangesStoresEdits ==
    [][/\ SaveChangesClicked =>
             HoldsWhatWasTyped(timers'[Len(timers')].report[1], shown[1])
       /\ \A i \in DOMAIN timers :
             UpdateTimerRuns(i) =>
                LET report == timers[i].report[1]
                    before == getReportHistory(localStorage)
                    after == getReportHistory(localStorage')
                IN  /\ view' = "report"
                    /\ shown' = <<report>>
                    /\ ~editing'
                    /\ \A p \in 1..Len(before) :
                          (before[p].id = report.id
                             /\ \A q \in 1..(p - 1) : before[q].id # report.id)
                          => after[p] = report]_vars

\* a report with a note for a section its template no longer has was edited
\* and saved: it is stored and shown with the typed note and the kept one
C15_Witness ==
    /\ timers = <<>>
    /\ view = "report"
    /\ shown # <<>>
    /\ shown[1].measurements = EditedMeasurements
    /\ DOMAIN shown[1].customData = {NewSectionId(0), NewSectionId(1)}
    /\ shown[1].customData[NewSectionId(0)] = "kept"
    /\ shown[1].customData[NewSectionId(1)] = "checked"
    /\ \E p \in 1..Len(getReportHistory(localStorage)) :
          getReportHistory(localStorage)[p] = shown[1]

(***************************************************************************)
(* C16                                                                     *)
(***************************************************************************)
\* the step is the run of the profileSave timer at place i: a save without a
\* selected file completes
ProfileTimerRuns(i) ==
    /\ CanFire(i)
    /\ timers[i].kind = "profileSave"
    /\ timers' = Append(Remove(timers, i), ReenableCallback(timers[i].attached))

\* the step is the load of reader i: a save with a selected file completes
ReaderLoads(i) ==
    /\ i \in DOMAIN readers
    /\ readers[i].file \in LogoFiles
    /\ readers' = Remove(readers, i)
    /\ Len(timers') = Len(timers) + 1

\* C16, as the specification states it: when a profile save completes, the
\* stored profile has the submitted company name and address, and its logo is
\* the selected file when one was selected, otherwise the logo stored just
\* before the write; a save without a file never changes the stored logo,
\* however the profile saves interleave
C16_SaveWithoutFileKeepsLogo ==
    [][/\ \A i \in DOMAIN timers :
             ProfileTimerRuns(i) =>
                /\ localStorage'[PROFILE_DATA_KEY] # <<>>
                /\ localStorage'[PROFILE_DATA_KEY][1].companyName =
                      timers[i].profile[1].companyName
                /\ localStorage'[PROFILE_DATA_KEY][1].companyAddress =
                      timers[i].profile[1].companyAddress
                /\ localStorage'[PROFILE_DATA_KEY][1].logoDataUrl =
                      CurrentProfile(localStorage[PROFILE_DATA_KEY]).logoDataUrl
       /\ \A i \in DOMAIN readers :
             ReaderLoads(i) =>
                /\ localStorage'[PROFILE_DATA_KEY] # <<>>
                /\ localStorage'[PROFILE_DATA_KEY][1].companyName = readers[i].companyName
                /\ localStorage'[PROFILE_DATA_KEY][1].companyAddress =
                      readers[i].companyAddress
                /\ localStorage'[PROFILE_DATA_KEY][1].logoDataUrl =
                      DataUrl(readers[i].file)]_vars

(***************************************************************************)
(* C17                                                                     *)
(***************************************************************************)
\* the nav bar of a signed-up user: the button is New Report and renders the
\* address form, the profile and templates links are visible
SignedUpNav ==
    /\ nav.btnText = "New Report"
    /\ nav.btnListener = "renderAddressInput"
    /\ ~nav.profileHidden
    /\ ~nav.templatesHidden

\* the step is a submit of the sign-up form of the report script
SignUpSubmitted == \E fullName \in UsualName : handleSignUpFormSubmit(fullName)

\* C17: after handleSignUpFormSubmit the modal is hidden, the address form is
\* displayed, the nav button is New Report and renders the address form, and
\* the profile and templates links are visible; a later submit of the form
\* leaves the nav bar as it is; no step undoes the nav bar of a signed-up user,
\* and from then on the modal is opened only from the landing page, never by
\* the nav button
C17_SignUpIsKept ==
    [][/\ SignUpSubmitted =>
             /\ modalHidden'
             /\ view' = "address"
             /\ SignedUpNav'
             /\ SignedUpNav => nav' = nav
       /\ SignedUpNav => SignedUpNav'
       /\ (SignedUpNav /\ modalHidden /\ ~modalHidden') => view = "landing"
       /\ (SignedUpNav /\ view # "address" /\ view' = "address" /\ modalHidden)
             => modalHidden']_vars

\* a signed-up user who has a report stored opened the modal again from the
\* landing page: the form can be submitted once more
C17_Witness ==
    /\ app = "report"
    /\ SignedUpNav
    /\ signUpName # <<>>
    /\ ~modalHidden
    /\ view = "landing"
    /\ Len(getReportHistory(localStorage)) > 0

(***************************************************************************)
(* The address form, submitted with and without an address                 *)
(***************************************************************************)
NextAddress ==
    \/ openModal
    \/ closeModal
    \/ \E fullName \in UsualName : handleSignUpFormSubmit(fullName)
    \/ \E fullName \in UsualName : SignUpSubmitBasic(fullName)
    \/ ClickNewReport
    \/ ClickLogo
    \/ StartNewReport
    \/ \E input \in AddressInputs, templateId \in TemplateChoices(localStorage) :
          handleAddressSubmit(input, templateId)
    \/ \E c \in 1..MaxCalls :
          MeasurementsResponse(c, [parsable |-> TRUE, object |-> AiMeasurements])
    \/ \E c \in 1..MaxCalls : MeasurementsRejected(c)
    \/ \E c \in 1..MaxCalls : ImageResponse(c, <<"/9j/4AAQ">>)

SpecAddress == Init /\ [][NextAddress]_vars

(***************************************************************************)
(* C18                                                                     *)
(***************************************************************************)
\* the address has a character that is not a space
NotBlank(address) == \E i \in DOMAIN address : address[i] # " "

\* the step is a submit of the address form that the listener refused
AddressRefused == alerted' = <<"Please enter a valid address.">>

\* C18: a submit of the address form with an empty or whitespace-only address
\* issues no AI request, adds no report to the history and leaves the address
\* form displayed with its submit button enabled: the refused submit changes
\* nothing, and every request issued and every report stored is for an
\* address that is not blank
C18_BlankAddressRefused ==
    [][/\ AddressRefused =>
             /\ calls' = calls
             /\ localStorage' = localStorage
             /\ view = "address" /\ view' = "address"
             /\ ~btnDisabled'
       /\ Len(calls') > Len(calls) => NotBlank(calls'[Len(calls')].address)
       /\ Len(getReportHistory(localStorage')) > Len(getReportHistory(localStorage))
             => NotBlank(getReportHistory(localStorage')[1].address)]_vars

\* the form was refused after a report had been made: the address form is in
\* view with its button enabled and the history still has the one report
C18_Witness ==
    /\ alerted = <<"Please enter a valid address.">>
    /\ view = "address"
    /\ ~btnDisabled
    /\ Len(calls) = 1
    /\ Len(getReportHistory(localStorage)) = 1

(***************************************************************************)
(* C19                                                                     *)
(***************************************************************************)
\* the step is a submit of the quote form that the listener refused
QuoteRefused == alerted' = <<"Please add at least one line item to the quote.">>

\* C19: a submit of the quote form with no line-item row stores no quote, the
\* stored list staying as it is, and leaves the quote creator displayed
\* instead of rendering the dashboard: the refused submit changes nothing, and
\* every step that stores a quote is made with a row in the form
C19_EmptyQuoteRefused ==
    [][/\ QuoteRefused =>
             /\ rows = <<>>
             /\ localStorage' = localStorage
             /\ view = "quoteCreator" /\ view' = "quoteCreator"
             /\ rows' = rows
       /\ Len(getQuotesFromStorage(localStorage')) # Len(getQuotesFromStorage(localStorage))
             => Len(rows) > 0
       /\ (view = "quoteCreator" /\ rows = <<>> /\ view' = "dashboard")
             => localStorage'[QUOTES_KEY] = localStorage[QUOTES_KEY]]_vars

\* the only row was removed and the form submitted: the quote creator is in
\* view without a row, and the stored quotes are those of the earlier visit
C19_Witness ==
    /\ alerted = <<"Please add at least one line item to the quote.">>
    /\ view = "quoteCreator"
    /\ rows = <<>>
    /\ getQuotesFromStorage(localStorage) = <<EarlierQuote>>

====
